---- MODULE Spec2Model ----
(***************************************************************************)
(* A model of nuthatch, a small HTTP/1.1 + WebSocket (RFC 6455) server.    *)
(*                                                                         *)
(* The module holds several specifications over one set of variables:      *)
(*   SpecCodec  the frame codec of src/ws.c (write_dataframe and           *)
(*              read_dataframe) driven as ws_dataframe_io_round_trip       *)
(*              drives it: frames are written to a memory stream and read  *)
(*              back from it;                                              *)
(*   SpecWs     one WebSocket session: the loop of dispatch_websocket      *)
(*              around ws_wait / _ws_read, fed by a client that sends      *)
(*              frames;                                                    *)
(*   SpecPath   the path sandbox of src/http.c (http_init's result and     *)
(*              realpath_uri) over a small file system;                    *)
(*   SpecHttp   one request through http_client_connect.                   *)
(* A variable that a specification does not use keeps its initial value.   *)
(*                                                                         *)
(* Byte strings.  Payloads of up to 65536 bytes have to be written, masked *)
(* and read back, so a byte string is kept as a sequence of runs; a run    *)
(* [n |-> k, pat |-> p] stands for the k bytes p[1], p[2], .., p[Len(p)],  *)
(* p[1], ..  (p repeated and cut after k bytes).  Every byte string can be *)
(* written this way (one run with Len(p) = k); the operations below are    *)
(* exact on the bytes denoted.                                             *)
(***************************************************************************)
EXTENDS Integers, Sequences, FiniteSets, TLC

VARIABLES
    \* ---- SpecCodec: the memory stream of ws_dataframe_io_round_trip
    mem,            \* bytes written to the stream and not yet read
    mask_key,       \* the mask_key the writer passes (NoKey is NULL)
    req_masked,     \* the require_masked argument the reader passes
    df_q,           \* frames written and not yet read back, oldest first
    df_in,          \* result of the last read_dataframe (NoFrame is NULL)
    df_want,        \* the frame that the last read_dataframe had to return
    \* ---- SpecWs: struct Websocket_S and the loop around ws_wait
    f_in,           \* bytes the client has sent and the session has not read
    in_eof,         \* the client has shut its side of the connection
    f_out,          \* bytes the session has written after the handshake
    f_out_err,      \* writes to f_out fail: the connection is broken
    ws,             \* struct Websocket_S
    opcode_prev,    \* the local opcode_prev of _ws_read
    pc,             \* "wait": blocked in read_dataframe; "done": ws_free ran
    ret_code,       \* ret_code of dispatch_websocket
    ret_log,        \* every return of ws_wait so far: type, message, status
    nsent,          \* the number of frames the client has sent
    c_last,         \* the last frame the client sent
    c_frag,         \* the client's account of the message it is sending in
                    \* fragments (see ClientFrag)
    \* ---- SpecPath: the sandbox
    static_files_dir,       \* _static_files_dir, as written by http_init
    static_files_dir_len,   \* _static_files_dir_len
    http_init_ret,          \* what http_init returned (NotCalled before it)
    uri_in,                 \* the uri given to the last realpath_uri
    path_out,               \* the last call, the path it returned (<<>> is
                            \* NULL) and the errno it left
    \* ---- SpecHttp: one request
    req,            \* the request given to http_client_connect (NoReq: none)
    http_out,       \* what the handler wrote to fd_client_out
    http_ret,       \* the value http_client_connect returned
    body_read,      \* the number of body bytes the handler read
    req_body,       \* how often the handler called malloc and free for req_body
    \* ---- SpecApi: the interface of ws.h, called as the unit tests call it
    api_headers,    \* the Http_Headers given to ws_is_upgradable, ws_upgrade
    api_ws,         \* the Websocket that ws_upgrade returned (NoSession:
                    \* not called yet, or NULL)
    api_out,        \* what was written to the stream out, in order
    api_fclose,     \* how often fclose was called on each stream
    api_log,        \* the calls made so far, oldest first
    \* ---- SpecLine: one call of io_read_line_crlf
    fd,             \* the bytes the descriptor delivers, and how many of
                    \* them read(2) has delivered
    buffer,         \* the bytes stored in the caller's buffer so far
    buffer_len,     \* the argument buffer_len
    line_len,       \* the local line_len
    ch_prev,        \* the local ch_prev
    io_pc,          \* "idle", "call", "read" (in the loop) or "done"
    io_ret,         \* the value returned
    io_errno,       \* errno as the call left it
    eintr,          \* how many reads a signal has interrupted
    io_calls,       \* how many calls of io_read_line_crlf the handler has made
    \* ---- SpecHeaders: one call of parse_headers, then lookups
    hdr_in,         \* the header block on the descriptor: its lines, how it
                    \* ends, and how many lines were read
    hdr_tab,        \* the Hashtable headers
    hdr_pc,         \* "idle", "parse" (in the loop) or "parsed"
    hdr_got,        \* the last lookups: the name and what ht_get returned
    \* ---- SpecServer: main, the listener, one client and its worker
    argv,           \* the arguments of the command line, argv[0] left out
    srv_pc,         \* where the listener is: "main", "startup", "test",
                    \* "select", "accept", "fork", "connect", "close",
                    \* "shutdown" or "exited"
    use_fork,       \* the argument use_fork of server
    shutdown_server,\* the flag, in the listener
    fd_server,      \* the listening socket: "none", "listening", "closed"
    exit_code,      \* the exit status of the listener (NotCalled: running)
    failed,         \* the call of server that failed ("none": none did)
    l_sig,          \* the signal delivered to the listener ("none": none)
    client,         \* the connection of the client
    worker,         \* the child process forked for the connection
    nconn,          \* the number of connections made so far
    \* ---- SpecHt: one struct Hashtable_S and the blocks its callers hand over
    ht,             \* struct Hashtable_S: size, nhash, free_key, free_val, chains
    ht_released,    \* how often each block was passed to free_key or free_val
    ht_puts,        \* the calls of ht_put so far: the key and value passed
    ht_cleared,     \* how many of them came before the last ht_clear
    ht_pc           \* "live", or "freed" after ht_free

codecVars == <<mem, mask_key, req_masked, df_q, df_in, df_want>>
wsVars    == <<f_in, in_eof, f_out, f_out_err, ws, opcode_prev, pc, ret_code, ret_log, nsent, c_last, c_frag>>
pathVars  == <<static_files_dir, static_files_dir_len, http_init_ret, uri_in, path_out>>
httpVars  == <<req, http_out, http_ret, body_read, req_body>>
apiVars   == <<api_headers, api_ws, api_out, api_fclose, api_log>>
ioVars    == <<fd, buffer, buffer_len, line_len, ch_prev, io_pc, io_ret, io_errno, eintr, io_calls>>
hdrVars   == <<hdr_in, hdr_tab, hdr_pc, hdr_got>>
serverVars == <<argv, srv_pc, use_fork, shutdown_server, fd_server, exit_code,
                failed, l_sig, client, worker, nconn>>
htVars    == <<ht, ht_released, ht_puts, ht_cleared, ht_pc>>
vars      == <<codecVars, wsVars, pathVars, httpVars, apiVars, ioVars, hdrVars, serverVars, htVars>>

(***************************************************************************)
(* Bytes and byte strings                                                  *)
(***************************************************************************)
Min(a, b) == IF a <= b THEN a ELSE b

\* bitwise exclusive or of two w-bit numbers (the C operator ^)
RECURSIVE XorN(_, _, _)
XorN(a, b, w) ==
    IF w = 0 THEN 0
    ELSE (((a % 2) + (b % 2)) % 2) + 2 * XorN(a \div 2, b \div 2, w - 1)

Xor8(a, b) == XorN(a, b, 8)

\* byte j (from 0) of a run
PatAt(r, j) == r.pat[(j % Len(r.pat)) + 1]

\* a run in a standard form: the pattern is no longer than the run and is
\* cut to its shortest period that divides its length
NormRun(r) ==
    LET p == IF r.n < Len(r.pat) THEN SubSeq(r.pat, 1, r.n) ELSE r.pat
        ds == {d \in 1..Len(p) :
                 /\ Len(p) % d = 0
                 /\ \A j \in 1..Len(p) : p[j] = p[((j - 1) % d) + 1]}
        d0 == CHOOSE d \in ds : \A e \in ds : d <= e
    IN  [n |-> r.n, pat |-> SubSeq(p, 1, d0)]

\* the byte string of an explicit sequence of bytes
FromSeq(s) == IF s = <<>> THEN <<>> ELSE <<NormRun([n |-> Len(s), pat |-> s])>>

\* the byte string of n bytes that repeat the pattern p
Repeat(p, n) == IF n = 0 THEN <<>> ELSE <<NormRun([n |-> n, pat |-> p])>>

RECURSIVE BLen(_)
BLen(b) == IF b = <<>> THEN 0 ELSE b[1].n + BLen(Tail(b))

\* byte i (from 0) of a byte string, i < BLen(b)
RECURSIVE BAt(_, _)
BAt(b, i) == IF i < b[1].n THEN PatAt(b[1], i) ELSE BAt(Tail(b), i - b[1].n)

Rot(p, k) == [j \in 1..Len(p) |-> p[((j - 1 + k) % Len(p)) + 1]]

\* the byte string without its first k bytes
RECURSIVE BDrop(_, _)
BDrop(b, k) ==
    IF k = 0 \/ b = <<>> THEN b
    ELSE IF k >= b[1].n THEN BDrop(Tail(b), k - b[1].n)
    ELSE <<NormRun([n |-> b[1].n - k, pat |-> Rot(b[1].pat, k)])>> \o Tail(b)

\* the first k bytes of the byte string
RECURSIVE BTake(_, _)
BTake(b, k) ==
    IF k = 0 \/ b = <<>> THEN <<>>
    ELSE IF k >= b[1].n THEN <<b[1]>> \o BTake(Tail(b), k - b[1].n)
    ELSE <<NormRun([n |-> k, pat |-> b[1].pat])>>

\* the first k bytes as an explicit sequence (k small, k <= BLen(b))
BSeq(b, k) == [i \in 1..k |-> BAt(b, i - 1)]

\* the two byte strings denote the same bytes
RECURSIVE BEq(_, _)
BEq(a, b) ==
    IF a = <<>> \/ b = <<>> THEN a = b
    ELSE LET m == Min(a[1].n, b[1].n)
             w == Min(m, Len(a[1].pat) * Len(b[1].pat))
         IN  /\ \A j \in 0..(w - 1) : PatAt(a[1], j) = PatAt(b[1], j)
             /\ BEq(BDrop(a, m), BDrop(b, m))

\* big-endian value of a sequence of bytes (be16toh, be64toh)
RECURSIVE BeVal(_)
BeVal(s) == IF s = <<>> THEN 0 ELSE BeVal(SubSeq(s, 1, Len(s) - 1)) * 256 + s[Len(s)]

\* the w bytes of v, big-endian (htobe16, htobe64)
RECURSIVE BeBytes(_, _)
BeBytes(v, w) == IF w = 0 THEN <<>> ELSE BeBytes(v \div 256, w - 1) \o <<v % 256>>

\* the byte string b with byte i (counted from off) xor-ed with key[i mod 4]:
\* the loops "payload[i] = payload[i] ^ mask_key[i%4]" of ws.c
RECURSIVE BXor(_, _, _)
BXor(b, key, off) ==
    IF b = <<>> THEN <<>>
    ELSE LET r == b[1]
             L == Len(r.pat)
             M == Min(r.n, 4 * L)
             p == [j \in 1..M |-> Xor8(r.pat[((j - 1) % L) + 1],
                                        key[((off + j - 1) % 4) + 1])]
         IN  <<NormRun([n |-> r.n, pat |-> p])>>
                 \o BXor(Tail(b), key, (off + r.n) % 4)

(***************************************************************************)
(* The frame codec (src/ws.c)                                              *)
(***************************************************************************)
OC_CONT  == 0
OC_TEXT  == 1
OC_BIN   == 2
OC_CLOSE == 8
OC_PING  == 9
OC_PONG  == 10

\* NULL for a mask key and for a Data_Frame
NoKey   == <<>>
NoFrame == [opcode |-> -1, fin |-> FALSE, len |-> 0, payload |-> <<>>]

\* struct Data_Frame_S with its fields set as alloc_dataframe sets them; the
\* payload is the first len bytes of the frame's storage (the size field,
\* which only steers realloc, is left out)
alloc_dataframe(opcode, fin, len, payload) ==
    [opcode |-> opcode, fin |-> fin, len |-> len, payload |-> BTake(payload, len)]

\* struct Data_Frame_Header_S read from two bytes: the bit fields are laid
\* out from the low bit up, in declaration order
Data_Frame_Header(b0, b1) ==
    [opcode |-> b0 % 16,
     rsv3   |-> (b0 \div 16) % 2,
     rsv2   |-> (b0 \div 32) % 2,
     rsv1   |-> (b0 \div 64) % 2,
     fin    |-> (b0 \div 128) % 2,
     len    |-> b1 % 128,
     mask   |-> (b1 \div 128) % 2]

\* the two bytes of a struct Data_Frame_Header_S
Header_Bytes(dfh) ==
    << dfh.opcode + 16 * dfh.rsv3 + 32 * dfh.rsv2 + 64 * dfh.rsv1 + 128 * dfh.fin,
       dfh.len + 128 * dfh.mask >>

\* be64toh of the eight bytes s.  A length of 2^31 or more is longer than any
\* stream of the model and is represented by 2^31 - 1 (the high bit, which the
\* code tests, is read from s[1] by the caller).
Len64(s) ==
    IF s[1] = 0 /\ s[2] = 0 /\ s[3] = 0 /\ s[4] = 0 /\ s[5] < 128
    THEN BeVal(SubSeq(s, 5, 8))
    ELSE 2147483647

\* "Unmask the payload": payload[i] = payload[i] ^ mask_key[i%4]
unmask_payload_from1(raw, key) == BXor(raw, key, 1)
unmask_payload(raw, key) == BXor(raw, key, 0)

\* "Mask the payload" of write_dataframe, the same loop
mask_payload(payload, key) == BXor(payload, key, 0)

\* the 7-bit len field write_dataframe picks for a payload length
payload_len7_lt(len) == IF len <= 125 THEN len ELSE IF len < 65535 THEN 126 ELSE 127
payload_len7(len) == IF len <= 125 THEN len ELSE IF len <= 65535 THEN 126 ELSE 127

\* read_dataframe: "if(!dfh.mask && require_masked)"
mask_never_missing(mask, require_masked) == FALSE
mask_missing(mask, require_masked) == mask = 0 /\ require_masked

\* read_dataframe: [df |-> the frame or NoFrame, rest |-> the stream after it].
\* A short fread leaves the stream at its end.
read_dataframe(f, require_masked) ==
    IF BLen(f) < 2 THEN [df |-> NoFrame, rest |-> <<>>]
    ELSE
    LET dfh == Data_Frame_Header(BAt(f, 0), BAt(f, 1))
        f1  == BDrop(f, 2)
        xl  == IF dfh.len = 127 THEN 8 ELSE IF dfh.len = 126 THEN 2 ELSE 0
    IN
    IF mask_missing(dfh.mask, require_masked) THEN [df |-> NoFrame, rest |-> f1]
    ELSE IF BLen(f1) < xl THEN [df |-> NoFrame, rest |-> <<>>]
    ELSE
    LET xs    == BSeq(f1, xl)
        f2    == BDrop(f1, xl)
        len64 == IF dfh.len = 127 THEN Len64(xs)
                 ELSE IF dfh.len = 126 THEN BeVal(xs)
                 ELSE dfh.len
        kl    == IF dfh.mask = 1 THEN 4 ELSE 0
    IN
    IF dfh.len = 127 /\ xs[1] >= 128 THEN [df |-> NoFrame, rest |-> f2]
    ELSE IF BLen(f2) < kl THEN [df |-> NoFrame, rest |-> <<>>]
    ELSE
    LET key   == BSeq(f2, kl)
        f3    == BDrop(f2, kl)
    IN
    IF BLen(f3) < len64 THEN [df |-> NoFrame, rest |-> <<>>]
    ELSE
    LET raw     == BTake(f3, len64)
        payload == IF dfh.mask = 1 THEN unmask_payload(raw, key) ELSE raw
    IN  [df   |-> alloc_dataframe(dfh.opcode, dfh.fin = 1, len64, payload),
         rest |-> BDrop(f3, len64)]

\* write_dataframe with every fwrite succeeding: the bytes written to f
write_dataframe(df, key) ==
    LET m    == IF key = NoKey THEN 0 ELSE 1
        dfh  == [opcode |-> df.opcode % 16, rsv1 |-> 0, rsv2 |-> 0, rsv3 |-> 0,
                 fin |-> IF df.fin THEN 1 ELSE 0, mask |-> m,
                 len |-> payload_len7(df.len)]
        ext  == IF dfh.len = 126 THEN BeBytes(df.len, 2)
                ELSE IF dfh.len = 127 THEN BeBytes(df.len, 8)
                ELSE <<>>
        body == IF key = NoKey THEN BTake(df.payload, df.len)
                ELSE mask_payload(BTake(df.payload, df.len), key)
    IN  FromSeq(Header_Bytes(dfh) \o ext \o key) \o body

(***************************************************************************)
(* The values a variable has while its specification is not running        *)
(***************************************************************************)
NoReq == [line |-> <<>>]

CodecIdle ==
    /\ mem = <<>> /\ mask_key = NoKey /\ req_masked = FALSE
    /\ df_q = <<>> /\ df_in = NoFrame /\ df_want = NoFrame

WsIdle ==
    /\ f_in = <<>> /\ in_eof = FALSE /\ f_out = <<>> /\ f_out_err = FALSE
    /\ ws = [df |-> NoFrame] /\ opcode_prev = -1 /\ pc = "idle"
    /\ ret_code = 0 /\ ret_log = <<>> /\ nsent = 0
    /\ c_last = [opcode |-> -1] /\ c_frag = [op |-> -1]

NotCalled == -2
NoCall == [call |-> "none", path |-> <<>>, errno |-> "none"]

PathIdle ==
    /\ static_files_dir = <<>> /\ static_files_dir_len = 0
    /\ http_init_ret = NotCalled /\ uri_in = <<>> /\ path_out = NoCall

HttpIdle ==
    /\ req = NoReq /\ http_out = <<>> /\ http_ret = NotCalled /\ body_read = 0
    /\ req_body = [malloc |-> 0, free |-> 0]

NoHeaders == [null |-> TRUE]
NoSession == [f_in |-> "NULL", f_out |-> "NULL", freed |-> FALSE]
ApiIdle ==
    /\ api_headers = NoHeaders /\ api_ws = NoSession /\ api_out = <<>>
    /\ api_fclose = <<>> /\ api_log = <<>>

NUL == "NUL"
NoStream == [stream |-> <<>>, pos |-> 0]
IoIdle ==
    /\ fd = NoStream /\ buffer = <<>> /\ buffer_len = 0 /\ line_len = 0
    /\ ch_prev = NUL /\ io_pc = "idle" /\ io_ret = NotCalled
    /\ io_errno = "none" /\ eintr = 0 /\ io_calls = 0

NoBlock == [lines |-> <<>>, end |-> "none", pos |-> 0]
NoLookup == [name |-> <<>>]
HdrIdle ==
    /\ hdr_in = NoBlock /\ hdr_tab = NoHeaders /\ hdr_pc = "idle"
    /\ hdr_got = NoLookup

\* no connection: nothing pending on the listening socket
NoClient == [state |-> "none", kind |-> "http", msgs |-> 0, sent |-> 0,
             closed |-> FALSE, l_fd |-> FALSE]
\* no child process
\* no child process.  s_fd_client is the static _fd_client, fd_open says
\* that the child's descriptor of the peer socket is open, sig and sig_pc
\* are the signal delivered to the child and where the child was then
NoWorker == [pc |-> "none", shutdown_server |-> 0, s_fd_client |-> "0",
             fd_open |-> FALSE, sig |-> "none", sig_pc |-> "none",
             served |-> 0]
ServerIdle ==
    /\ argv = <<>> /\ srv_pc = "idle" /\ use_fork = TRUE
    /\ shutdown_server = 0 /\ fd_server = "none" /\ exit_code = NotCalled
    /\ failed = "none" /\ l_sig = "none" /\ client = NoClient
    /\ worker = NoWorker /\ nconn = 0
NoTable == [size |-> 0]
HtIdle ==
    /\ ht = NoTable /\ ht_released = <<>> /\ ht_puts = <<>>
    /\ ht_cleared = 0 /\ ht_pc = "idle"

(***************************************************************************)
(* SpecCodec: frames written to a memory stream and read back, as in       *)
(* UT_TEST_CASE(ws_dataframe_io_round_trip)                                *)
(***************************************************************************)
\* how many frames may be in the stream at once
MaxInFlight == 2

\* the mask keys the writer uses (the first is the unit test's)
CodecKeys == {NoKey, <<2, 1, 1, 2>>, <<0, 255, 129, 16>>}

\* a payload of n bytes
CodecPayload(n) == Repeat(<<(n % 251) + 1, 170, 85>>, n)

\* the payload lengths at which the length encoding changes, and their
\* neighbours
CodecLens == {0, 1, 125, 126, 65535, 65536}

\* opcode, fin and payload length of the frames written: data, control and
\* undefined opcodes with both values of fin, and every length
CodecShapes ==
    ({OC_CONT, OC_TEXT, OC_PING, 15} \X BOOLEAN \X {2})
        \cup ({OC_BIN} \X {TRUE} \X CodecLens)

CodecFrames ==
    {alloc_dataframe(sh[1], sh[2], sh[3], CodecPayload(sh[3])) : sh \in CodecShapes}

CodecInit ==
    /\ mem = <<>>
    /\ mask_key \in CodecKeys
    /\ req_masked \in (IF mask_key = NoKey THEN BOOLEAN ELSE {TRUE})
    /\ df_q = <<>>
    /\ df_in = NoFrame
    /\ df_want = NoFrame
    /\ WsIdle /\ PathIdle /\ HttpIdle /\ ApiIdle /\ IoIdle /\ HdrIdle /\ ServerIdle /\ HtIdle

\* a read_dataframe has returned NULL: the test stops there
CodecFailed == df_want # NoFrame /\ df_in = NoFrame

\* alloc_dataframe, memcpy of the payload, write_dataframe(out, df_out, mask_key)
CodecWrite(df) ==
    /\ ~CodecFailed
    /\ Len(df_q) < MaxInFlight
    /\ mem' = mem \o write_dataframe(df, mask_key)
    /\ df_q' = Append(df_q, df)
    /\ UNCHANGED <<mask_key, req_masked, df_in, df_want>>
    /\ UNCHANGED <<wsVars, pathVars, httpVars, apiVars, ioVars, hdrVars, serverVars, htVars>>

\* df_in = read_dataframe(in, require_masked, df_in)
CodecRead ==
    /\ ~CodecFailed
    /\ df_q # <<>>
    /\ LET r == read_dataframe(mem, req_masked)
       IN  /\ df_in' = r.df
           /\ mem' = r.rest
    /\ df_want' = Head(df_q)
    /\ df_q' = Tail(df_q)
    /\ UNCHANGED <<mask_key, req_masked>>
    /\ UNCHANGED <<wsVars, pathVars, httpVars, apiVars, ioVars, hdrVars, serverVars, htVars>>

CodecNext ==
    \/ \E df \in CodecFrames : CodecWrite(df)
    \/ CodecRead

SpecCodec == CodecInit /\ [][CodecNext]_vars

(***************************************************************************)
(* Claims about the codec                                                  *)
(***************************************************************************)
\* C7: frame round trip.  Whenever a frame that write_dataframe wrote with a
\* mask key has been read back with require_masked = TRUE, the frame read has
\* the opcode, the fin flag and the payload bytes of the frame written, and
\* the read consumed exactly that frame's bytes: the frames still in the
\* stream come back in order, and the stream is empty once all are read.
C7_RoundTrip ==
    (mask_key # NoKey /\ req_masked /\ df_want # NoFrame) =>
        /\ df_in # NoFrame
        /\ df_in.opcode = df_want.opcode
        /\ df_in.fin = df_want.fin
        /\ df_in.len = df_want.len
        /\ BLen(df_in.payload) = df_want.len
        /\ BEq(df_in.payload, df_want.payload)
        /\ (df_q = <<>> => mem = <<>>)

\* a masked frame of 65536 bytes has been read back whole while the next
\* frame is still in the stream behind it
C7_Witness ==
    /\ mask_key # NoKey /\ req_masked
    /\ df_want.len = 65536
    /\ df_in.len = 65536
    /\ BEq(df_in.payload, df_want.payload)
    /\ Len(df_q) = 1

\* C8: write_dataframe picks the shortest length encoding.  With exactly one
\* frame in the stream, the stream is: two header bytes with the reserved bits
\* zero and the length inline if it is at most 125; else len7 = 126 and a
\* 16-bit big-endian length if it is at most 65535; else len7 = 127 and a
\* 64-bit big-endian length; then 4 bytes of key when masking; then the payload.
C8_ShortestLength ==
    (Len(df_q) = 1 /\ ~CodecFailed) =>
        LET n  == df_q[1].len
            hl == IF n <= 125 THEN 2 ELSE IF n <= 65535 THEN 4 ELSE 10
            kl == IF mask_key = NoKey THEN 0 ELSE 4
            b0 == BAt(mem, 0)
            b1 == BAt(mem, 1)
        IN  /\ BLen(mem) = hl + kl + n
            /\ b0 % 16 = df_q[1].opcode
            /\ (b0 \div 16) % 8 = 0
            /\ b0 \div 128 = (IF df_q[1].fin THEN 1 ELSE 0)
            /\ b1 \div 128 = (IF mask_key = NoKey THEN 0 ELSE 1)
            /\ b1 % 128 = (IF n <= 125 THEN n ELSE IF n <= 65535 THEN 126 ELSE 127)
            /\ hl = 4 => BAt(mem, 2) * 256 + BAt(mem, 3) = n
            /\ hl = 10 => /\ \A i \in 2..6 : BAt(mem, i) = 0
                          /\ (BAt(mem, 7) * 256 + BAt(mem, 8)) * 256 + BAt(mem, 9) = n
            /\ \A i \in 1..kl : BAt(mem, hl + i - 1) = mask_key[i]

\* a masked frame of 65536 bytes is in the stream behind a 14-byte header, and
\* (in another run) an unmasked one of 65535 bytes behind a 4-byte header
C8_Witness ==
    /\ Len(df_q) = 1 /\ ~CodecFailed
    /\ \/ mask_key # NoKey /\ df_q[1].len = 65536 /\ BLen(mem) = 65536 + 14
       \/ mask_key = NoKey /\ df_q[1].len = 65535 /\ BLen(mem) = 65535 + 4

(***************************************************************************)
(* The WebSocket session (src/ws.c) and its driver (dispatch_websocket)    *)
(***************************************************************************)
WS_ERROR   == 0
WS_CLOSE   == 1
WS_MSG_TXT == 2
WS_MSG_BIN == 3

WS_STATUS_GOING_AWAY == 1001

\* mem_append: the first dest_len bytes of dest, then src; allocation succeeds
mem_append(dest, dest_len, src, src_len) ==
    [buff |-> BTake(dest, dest_len) \o BTake(src, src_len),
     len  |-> dest_len + src_len]

\* ws_get_msg: the first buff_len bytes of buff
ws_get_msg(w) == BTake(w.buff, w.buff_len)

\* _ws_create after a successful handshake: the PING frame it allocates and
\* writes to f_out (the write succeeds), and the struct it fills in.  A
\* stream is named by a string; "NULL" is the null pointer.
ws_create(f_in_, f_out_, masked_client) ==
    LET df == alloc_dataframe(OC_PING, TRUE, 0, <<>>)
    IN  [out |-> write_dataframe(df, NoKey),
         ws  |-> [df |-> df,
                  buff |-> <<>>, buff_len |-> 0,
                  status_code |-> 0,
                  ping_recv_count |-> 0, pong_recv_count |-> 0,
                  is_masked_client |-> masked_client,
                  f_in |-> f_in_, f_out |-> f_out_]]

\* _ws_read: "opcode" after the test for OC_CONT
effective_opcode(df_opcode, prev) == IF df_opcode = OC_CONT THEN prev ELSE df_opcode

\* _ws_read: buff_len after the test for OC_CONT
reset_buff_len_never(df_opcode, buff_len) == buff_len
reset_buff_len(df_opcode, buff_len) == IF df_opcode = OC_CONT THEN buff_len ELSE 0

\* _ws_read, case OC_CLOSE: 0, or the first two payload bytes copied into a
\* uint16_t and passed through be16toh
close_status_code_le(len, payload) ==
    IF len >= 2 THEN BAt(payload, 0) + 256 * BAt(payload, 1) ELSE 0
close_status_code(len, payload) ==
    IF len >= 2 THEN BeVal(BSeq(payload, 2)) ELSE 0

\* One pass of the loop of _ws_read over the frame df that read_dataframe
\* returned (df # NoFrame): the struct afterwards, opcode_prev afterwards, the
\* bytes written to f_out, and whether the function returns (ret) and what (oc).
ws_read_frame(w, prev, df) ==
    LET opcode == effective_opcode(df.opcode, prev)
        w0     == [w EXCEPT !.df = df, !.buff_len = reset_buff_len(df.opcode, w.buff_len)]
        next   == IF df.fin THEN -1 ELSE opcode
    IN
    CASE opcode = OC_PING ->
           LET pong == [df EXCEPT !.opcode = OC_PONG]
           IN  [ws   |-> [w0 EXCEPT !.ping_recv_count = (@ + 1) % 65536, !.df = pong],
                prev |-> next, out |-> write_dataframe(pong, NoKey),
                ret  |-> FALSE, oc |-> 0]
      [] opcode = OC_PONG ->
               [ws   |-> [w0 EXCEPT !.pong_recv_count = (@ + 1) % 65536],
                prev |-> next, out |-> <<>>, ret |-> FALSE, oc |-> 0]
      [] opcode = OC_CLOSE ->
           LET status_code == close_status_code(df.len, df.payload)
           IN  [ws   |-> [w0 EXCEPT !.status_code = status_code],
                prev |-> prev, out |-> <<>>, ret |-> TRUE, oc |-> OC_CLOSE]
      [] opcode \in {OC_TEXT, OC_BIN} ->
           LET a  == mem_append(w0.buff, w0.buff_len, df.payload, df.len)
               w1 == [w0 EXCEPT !.buff = a.buff, !.buff_len = a.len]
           IN  IF df.fin
               THEN [ws |-> w1, prev |-> prev, out |-> <<>>, ret |-> TRUE, oc |-> opcode]
               ELSE [ws |-> w1, prev |-> next, out |-> <<>>, ret |-> FALSE, oc |-> 0]
      [] OTHER ->
               [ws |-> w0, prev |-> prev, out |-> <<>>, ret |-> TRUE, oc |-> -1]

\* ws_wait with the default label on the case of OC_CLOSE
ws_wait_default_close(oc) ==
    CASE oc = OC_BIN   -> WS_MSG_BIN
      [] oc = OC_TEXT  -> WS_MSG_TXT
      [] OTHER         -> WS_CLOSE
\* ws_wait: the type for what _ws_read returned
ws_wait(oc) ==
    CASE oc = OC_CLOSE -> WS_CLOSE
      [] oc = OC_BIN   -> WS_MSG_BIN
      [] oc = OC_TEXT  -> WS_MSG_TXT
      [] OTHER         -> WS_ERROR

\* _ws_send_msg: the bytes of one unmasked frame with fin set
ws_send_msg_text(type, msg) ==
    write_dataframe(alloc_dataframe(OC_TEXT, TRUE, BLen(msg), msg), NoKey)
ws_send_msg(type, msg) ==
    write_dataframe(
        alloc_dataframe(IF type = WS_MSG_TXT THEN OC_TEXT ELSE OC_BIN, TRUE, BLen(msg), msg),
        NoKey)

\* _ws_send_close: the bytes of a CLOSE frame that carries the status
ws_send_close(status_code) ==
    write_dataframe(alloc_dataframe(OC_CLOSE, TRUE, 2, FromSeq(BeBytes(status_code, 2))), NoKey)

\* ws_is_open
ws_is_open(w) == w.f_in # "NULL" /\ w.f_out # "NULL"

\* ws_close: the streams it passes to fclose, in order
ws_close_twice(w) ==
    (IF w.f_in # "NULL" THEN <<w.f_in>> ELSE <<>>)
    \o (IF w.f_out # "NULL" THEN <<w.f_out>> ELSE <<>>)
ws_close_fclose(w) ==
    (IF w.f_in # "NULL" /\ w.f_in # w.f_out THEN <<w.f_in>> ELSE <<>>)
    \o (IF w.f_out # "NULL" THEN <<w.f_out>> ELSE <<>>)

\* ws_close: nothing if f_out is NULL; else a CLOSE frame, then the streams
\* are closed and both pointers set to NULL
ws_close(w, code) ==
    IF w.f_out = "NULL" THEN [ws |-> w, out |-> <<>>, fclose |-> <<>>]
    ELSE [ws |-> [w EXCEPT !.f_in = "NULL", !.f_out = "NULL"],
          out |-> ws_send_close(code),
          fclose |-> ws_close_fclose(w)]

\* ws_free: ws_close(ws, WS_STATUS_GOING_AWAY), then the frame is freed
ws_free(w) ==
    LET c == ws_close(w, WS_STATUS_GOING_AWAY)
    IN  [ws |-> [c.ws EXCEPT !.df = NoFrame], out |-> c.out, fclose |-> c.fclose]

(***************************************************************************)
(* SpecWs: a client sends frames to a session that dispatch_websocket       *)
(* drives.  The state starts after ws_upgrade has succeeded; the HTTP 101   *)
(* response that _ws_handshake wrote before is not part of f_out here.      *)
(***************************************************************************)
\* how many frames the client sends
MaxFrames == 3

\* the client's mask key
WsKey == <<2, 1, 1, 2>>

\* A frame as the client puts it on the wire: any header bits, and enc = 0 for
\* the shortest length encoding, 126 or 127 to force an extended one.
ClientFrame(opcode, fin, payload, rsv, mask, enc) ==
    [opcode |-> opcode, fin |-> fin, payload |-> payload, rsv |-> rsv,
     mask |-> mask, enc |-> enc]

\* the bytes of a client frame, by the layout of RFC 6455 that the comment
\* before read_dataframe draws
client_frame_bytes(cf) ==
    LET n    == BLen(cf.payload)
        len7 == IF cf.enc # 0 THEN cf.enc
                ELSE IF n <= 125 THEN n ELSE IF n <= 65535 THEN 126 ELSE 127
        dfh  == [opcode |-> cf.opcode,
                 rsv1 |-> (cf.rsv \div 4) % 2, rsv2 |-> (cf.rsv \div 2) % 2,
                 rsv3 |-> cf.rsv % 2,
                 fin |-> cf.fin, mask |-> cf.mask, len |-> len7]
        ext  == IF len7 = 126 THEN BeBytes(n, 2)
                ELSE IF len7 = 127 THEN BeBytes(n, 8) ELSE <<>>
        key  == IF cf.mask = 1 THEN WsKey ELSE <<>>
        body == IF cf.mask = 1 THEN BXor(cf.payload, WsKey, 0) ELSE cf.payload
    IN  FromSeq(Header_Bytes(dfh) \o ext \o key) \o body

PayHi   == FromSeq(<<72, 105>>)
PayBang == FromSeq(<<33>>)
Pay126  == Repeat(<<7>>, 126)

\* the frames the client chooses from
WsFrames ==
    \* data frames, masked, well formed
    {ClientFrame(OC_TEXT, f, PayHi, 0, 1, 0) : f \in {0, 1}}
      \cup {ClientFrame(OC_TEXT, 1, <<>>, 0, 1, 0)}
      \cup {ClientFrame(OC_BIN, f, PayBang, 0, 1, 0) : f \in {0, 1}}
      \cup {ClientFrame(OC_CONT, f, pl, 0, 1, 0) : f \in {0, 1}, pl \in {PayHi, PayBang}}
    \* control frames, masked, well formed
      \cup {ClientFrame(OC_PING, 1, pl, 0, 1, 0) : pl \in {<<>>, PayHi}}
      \cup {ClientFrame(OC_PONG, 1, <<>>, 0, 1, 0)}
      \cup {ClientFrame(OC_CLOSE, 1, pl, 0, 1, 0) :
                pl \in {<<>>, FromSeq(<<3>>), FromSeq(<<3, 232>>),
                        FromSeq(<<15, 160, 33>>)}}
    \* control frames that are fragmented or use an extended length
      \cup {ClientFrame(OC_PING, 0, PayHi, 0, 1, 0),
            ClientFrame(OC_PONG, 0, <<>>, 0, 1, 0),
            ClientFrame(OC_PING, 1, Pay126, 0, 1, 0),
            ClientFrame(OC_PING, 1, PayHi, 0, 1, 126)}
    \* reserved bits set, mask bit clear, undefined opcode
      \cup {ClientFrame(OC_TEXT, 1, PayHi, 4, 1, 0),
            ClientFrame(OC_PING, 1, <<>>, 1, 1, 0),
            ClientFrame(OC_TEXT, 1, PayHi, 0, 0, 0),
            ClientFrame(3, 1, PayHi, 0, 1, 0),
            ClientFrame(11, 1, <<>>, 0, 1, 0)}

\* the frame satisfies the Frame invariants of RFC 6455 for a client frame
WellFormed(cf) ==
    /\ cf.rsv = 0
    /\ cf.mask = 1
    /\ cf.opcode \in {OC_CONT, OC_TEXT, OC_BIN, OC_CLOSE, OC_PING, OC_PONG}
    /\ cf.opcode >= 8 => (cf.fin = 1 /\ cf.enc = 0 /\ BLen(cf.payload) <= 125)

\* The client's account of the message it is sending in fragments:
\*   op    the opcode of its first frame (OC_TEXT or OC_BIN), -1 if there is none
\*   msg   the payloads of its fragments so far, concatenated
\*   done  the CONT frame with fin = 1 has been sent
\*   ctl   the number of PING and PONG frames sent between its fragments
\*   rets  the number of returns of ws_wait before its first frame
NoFrag == [op |-> -1]

ClientFrag(cf) ==
    LET open == c_frag.op # -1 /\ ~c_frag.done
    IN  IF ~WellFormed(cf) THEN NoFrag
        ELSE IF cf.opcode \in {OC_TEXT, OC_BIN} /\ cf.fin = 0
        THEN [op |-> cf.opcode, msg |-> cf.payload, done |-> FALSE, ctl |-> 0,
              rets |-> Len(ret_log)]
        ELSE IF cf.opcode = OC_CONT /\ open
        THEN [c_frag EXCEPT !.msg = @ \o cf.payload, !.done = (cf.fin = 1)]
        ELSE IF cf.opcode \in {OC_PING, OC_PONG} /\ open
        THEN [c_frag EXCEPT !.ctl = @ + 1]
        ELSE NoFrag

WsInit ==
    /\ f_in = <<>>
    /\ in_eof = FALSE
    /\ f_out_err = FALSE
    /\ \E masked_client \in BOOLEAN :
          LET c == ws_create("f_in", "f_out", masked_client)
          IN  ws = c.ws /\ f_out = c.out
    /\ opcode_prev = -1
    /\ pc = "wait"
    /\ ret_code = 0
    /\ ret_log = <<>>
    /\ nsent = 0
    /\ c_last = [opcode |-> -1]
    /\ c_frag = NoFrag
    /\ CodecIdle /\ PathIdle /\ HttpIdle /\ ApiIdle /\ IoIdle /\ HdrIdle /\ ServerIdle /\ HtIdle

\* the client sends one frame, once the session has read the one before
ClientSend(cf) ==
    /\ pc = "wait" /\ ~in_eof /\ f_in = <<>>
    /\ nsent < MaxFrames
    /\ f_in' = client_frame_bytes(cf)
    /\ nsent' = nsent + 1
    /\ c_last' = cf
    /\ c_frag' = ClientFrag(cf)
    /\ UNCHANGED <<in_eof, f_out, f_out_err, ws, opcode_prev, pc, ret_code, ret_log>>
    /\ UNCHANGED <<codecVars, pathVars, httpVars, apiVars, ioVars, hdrVars, serverVars, htVars>>

\* the client shuts the connection down: the session's next read meets the
\* end of the stream
ClientShutdown ==
    /\ pc = "wait" /\ ~in_eof /\ f_in = <<>>
    /\ in_eof' = TRUE
    /\ c_frag' = NoFrag
    /\ UNCHANGED <<f_in, f_out, f_out_err, ws, opcode_prev, pc, ret_code, ret_log, nsent, c_last>>
    /\ UNCHANGED <<codecVars, pathVars, httpVars, apiVars, ioVars, hdrVars, serverVars, htVars>>

\* What reaches the client of the bytes a write_dataframe call passes to
\* fwrite and fflush: nothing once writes to f_out fail.  The callers in
\* _ws_read and dispatch_websocket drop the result of the call.
fwrite_out(bytes) == IF f_out_err THEN <<>> ELSE bytes

\* What follows a return of _ws_read with oc, in ws_wait and in the loop of
\* dispatch_websocket: the echo of a message and the next call of ws_wait, or
\* the end of the loop and ws_free.
WsReturn(w, out, oc) ==
    LET type  == ws_wait(oc)
        entry == [type |-> type, msg |-> ws_get_msg(w), status |-> w.status_code]
    IN  /\ ret_log' = Append(ret_log, entry)
        /\ opcode_prev' = -1
        /\ IF type \in {WS_MSG_TXT, WS_MSG_BIN}
           THEN /\ ws' = w
                /\ f_out' = f_out \o fwrite_out(out \o ws_send_msg(type, ws_get_msg(w)))
                /\ pc' = "wait"
                /\ UNCHANGED ret_code
           ELSE LET fr == ws_free(w)
                IN  /\ ws' = fr.ws
                    /\ f_out' = f_out \o fwrite_out(out \o fr.out)
                    /\ pc' = "done"
                    /\ ret_code' = IF type = WS_ERROR THEN -1 ELSE ret_code

\* a read that waits at the end of the stream instead of returning
fread_returns_data_only == f_in # <<>>

\* fread on f_in returns to read_dataframe: bytes of a frame are there, or the
\* stream has ended (the client has shut its side down) and fread returns
\* short.  Otherwise the call blocks.
fread_returns == f_in # <<>> \/ in_eof

\* The session reads the next frame: one pass of the loop of _ws_read, from
\* read_dataframe to the next read_dataframe or to the return, and on a return
\* what dispatch_websocket does with it.
WsReadFrame ==
    /\ pc = "wait"
    /\ fread_returns
    /\ LET r == read_dataframe(f_in, ws.is_masked_client)
       IN  /\ f_in' = r.rest
           /\ IF r.df = NoFrame
              THEN WsReturn([ws EXCEPT !.df = NoFrame], <<>>, WS_ERROR)
              ELSE LET s == ws_read_frame(ws, opcode_prev, r.df)
                   IN  IF s.ret
                       THEN WsReturn(s.ws, s.out, s.oc)
                       ELSE /\ ws' = s.ws
                            /\ opcode_prev' = s.prev
                            /\ f_out' = f_out \o fwrite_out(s.out)
                            /\ UNCHANGED <<pc, ret_code, ret_log>>
    /\ UNCHANGED <<in_eof, f_out_err, nsent, c_last, c_frag>>
    /\ UNCHANGED <<codecVars, pathVars, httpVars, apiVars, ioVars, hdrVars, serverVars, htVars>>

WsNext ==
    \/ \E cf \in WsFrames : ClientSend(cf)
    \/ ClientShutdown
    \/ WsReadFrame

SpecWs == WsInit /\ [][WsNext]_vars

\* The connection breaks for writing (the peer has reset it, or closed its
\* reading side): from now on fwrite or fflush on f_out fails.
OutputBreaks ==
    /\ pc = "wait" /\ ~f_out_err
    /\ f_out_err' = TRUE
    /\ UNCHANGED <<f_in, in_eof, f_out, ws, opcode_prev, pc, ret_code, ret_log, nsent, c_last, c_frag>>
    /\ UNCHANGED <<codecVars, pathVars, httpVars, apiVars, ioVars, hdrVars, serverVars, htVars>>

WsWriteNext ==
    \/ WsNext
    \/ OutputBreaks

\* SpecWs with a connection on which writes may start to fail
SpecWsWrite == WsInit /\ [][WsWriteNext]_vars

\* The worker that runs dispatch_websocket is a process of its own (or the
\* only thread of the server) and does nothing else: when a frame or the
\* end of the stream is there to read, it reads it.  Nothing is assumed of
\* the client.
\* The client takes its frames from LiveFrames: a message in one frame and
\* in fragments, control frames, a frame without mask, an unknown opcode.
LiveFrames ==
    {ClientFrame(OC_TEXT, f, PayBang, 0, 1, 0) : f \in {0, 1}}
      \cup {ClientFrame(OC_CONT, 1, PayBang, 0, 1, 0),
            ClientFrame(OC_PING, 1, <<>>, 0, 1, 0),
            ClientFrame(OC_PONG, 1, <<>>, 0, 1, 0),
            ClientFrame(OC_CLOSE, 1, <<>>, 0, 1, 0),
            ClientFrame(OC_BIN, 1, PayBang, 0, 0, 0),
            ClientFrame(3, 1, <<>>, 0, 1, 0)}

WsLiveNext ==
    \/ \E cf \in LiveFrames : ClientSend(cf)
    \/ ClientShutdown
    \/ WsReadFrame
    \/ OutputBreaks

\* Weak fairness of the read step, WF_vars(WsReadFrame), written out: a step
\* of WsReadFrame is possible exactly when the session is in ws_wait and
\* fread returns, and every such step changes f_in or pc.
ReadFair ==
    \/ []<>~(pc = "wait" /\ fread_returns)
    \/ []<><<WsReadFrame>>_vars

SpecWsLive == WsInit /\ [][WsLiveNext]_vars /\ ReadFair

(***************************************************************************)
(* Claims about the session                                                *)
(***************************************************************************)
LastRet == ret_log[Len(ret_log)]

MsgType(op) == IF op = OC_TEXT THEN WS_MSG_TXT ELSE WS_MSG_BIN

\* the session has read every frame the client has sent
AllRead == f_in = <<>>

\* C1: a PING or PONG between the fragments of a data message leaves
\* opcode_prev and the reassembly buffer as they were, so that the message is
\* still in progress after it, and the CONT frame with fin = 1 makes ws_wait
\* return, once, the type of the first frame with all fragment payloads in order.
C1_ControlBetweenFragments ==
    (c_frag.op # -1 /\ c_frag.ctl > 0 /\ AllRead) =>
        /\ pc = "wait"
        /\ IF c_frag.done
           THEN /\ Len(ret_log) = c_frag.rets + 1
                /\ LastRet.type = MsgType(c_frag.op)
                /\ BEq(LastRet.msg, c_frag.msg)
           ELSE /\ Len(ret_log) = c_frag.rets
                /\ opcode_prev = c_frag.op
                /\ BEq(ws_get_msg(ws), c_frag.msg)

\* C2: for a data frame of opcode O in {TEXT, BIN} with fin = 0 followed only
\* by CONT frames, ws_wait does not return before the CONT frame with fin = 1
\* and returns once at that frame, with the message type of O, and ws_get_msg
\* is then the concatenation of the fragment payloads in arrival order and
\* nothing else.
C2_Reassembly ==
    (c_frag.op # -1 /\ c_frag.ctl = 0 /\ AllRead) =>
        /\ pc = "wait"
        /\ IF c_frag.done
           THEN /\ Len(ret_log) = c_frag.rets + 1
                /\ LastRet.type = MsgType(c_frag.op)
                /\ BEq(LastRet.msg, c_frag.msg)
                /\ BEq(ws_get_msg(ws), c_frag.msg)
           ELSE /\ Len(ret_log) = c_frag.rets
                /\ opcode_prev = c_frag.op

\* a message of two fragments has been returned whole after an earlier message
\* had been returned
C2_Witness ==
    /\ c_frag.op = OC_BIN /\ c_frag.ctl = 0 /\ c_frag.done /\ AllRead
    /\ Len(ret_log) = 2
    /\ ret_log[1].type = WS_MSG_TXT /\ BLen(ret_log[1].msg) = 2
    /\ ret_log[2].type = WS_MSG_BIN /\ BLen(ret_log[2].msg) = 3

\* C9: a frame with a reserved bit set is rejected: read_dataframe returns no
\* frame and ws_wait returns WS_ERROR.
C9_ReservedBitsRejected ==
    (c_last.opcode # -1 /\ c_last.rsv # 0 /\ AllRead) =>
        /\ ws.df = NoFrame
        /\ ret_log # <<>> /\ LastRet.type = WS_ERROR

\* C10: the frame the session holds and acts on, if it is a control frame
\* (opcode 8 and up), has fin set and at most 125 bytes of payload; and a
\* PING, PONG or CLOSE sent with fin = 0 or with an extended length makes
\* ws_wait return WS_ERROR.
C10_ControlFrameInvariant ==
    /\ (ws.df # NoFrame /\ ws.df.opcode >= 8) => (ws.df.fin /\ ws.df.len <= 125)
    /\ ( /\ c_last.opcode \in {OC_CLOSE, OC_PING, OC_PONG}
         /\ c_last.fin = 0 \/ c_last.enc # 0 \/ BLen(c_last.payload) > 125
         /\ AllRead )
       => (ret_log # <<>> /\ LastRet.type = WS_ERROR)

\* the bytes of the CLOSE frame that ws_free writes: fin, opcode 8, length
\* 2, status 1001
GoingAwayBytes == <<136, 2, 3, 233>>

\* the session reads a frame in this step
ReadsFrame == pc = "wait" /\ f_in # <<>> /\ f_in' # f_in

\* C11: in a session that requires a masked peer, a frame with mask bit 0
\* is rejected: read_dataframe returns no frame, ws_wait returns WS_ERROR,
\* the reassembly buffer keeps its length and nothing but the CLOSE of
\* ws_free is written; a masked TEXT frame in the same position is
\* returned as a message.
C11_UnmaskedRejected ==
    [][(ReadsFrame /\ ws.is_masked_client) =>
         /\ c_last.mask = 0 =>
               /\ ws'.df = NoFrame
               /\ pc' = "done" /\ ret_code' = -1
               /\ Len(ret_log') = Len(ret_log) + 1
               /\ ret_log'[Len(ret_log')].type = WS_ERROR
               /\ ws'.buff_len = ws.buff_len
               /\ BLen(f_out') = BLen(f_out) + 4
               /\ BSeq(BDrop(f_out', BLen(f_out)), 4) = GoingAwayBytes
         /\ (c_last = ClientFrame(OC_TEXT, 1, PayHi, 0, 1, 0)) =>
               /\ pc' = "wait"
               /\ ret_log'[Len(ret_log')].type = WS_MSG_TXT
               /\ BEq(ret_log'[Len(ret_log')].msg, PayHi)
      ]_vars

\* an unmasked frame has been rejected after a message had been accepted
C11_Witness ==
    /\ pc = "done" /\ Len(ret_log) = 2
    /\ ws.is_masked_client /\ c_last.mask = 0
    /\ ret_log[1].type = WS_MSG_TXT /\ ret_log[2].type = WS_ERROR

\* C12: a CLOSE frame with a payload of exactly one byte is a protocol
\* error: ws_wait returns WS_ERROR for it, not WS_CLOSE.
C12_CloseOneByteIsError ==
    (c_last.opcode = OC_CLOSE /\ BLen(c_last.payload) = 1 /\ AllRead) =>
        (ret_log # <<>> /\ LastRet.type = WS_ERROR)

\* C13: for a CLOSE frame with at least two bytes of payload ws_wait returns
\* WS_CLOSE at that frame, ws_status is then the first two payload bytes as
\* a big-endian number, and the frame is not echoed: only the CLOSE of
\* ws_free (status 1001) follows on the output.
C13_CloseStatus ==
    [][(ReadsFrame /\ c_last.opcode = OC_CLOSE /\ WellFormed(c_last)
          /\ BLen(c_last.payload) >= 2) =>
         /\ pc' = "done" /\ ret_code' = ret_code
         /\ Len(ret_log') = Len(ret_log) + 1
         /\ ret_log'[Len(ret_log')].type = WS_CLOSE
         /\ ret_log'[Len(ret_log')].status =
                256 * BAt(c_last.payload, 0) + BAt(c_last.payload, 1)
         /\ BLen(f_out') = BLen(f_out) + 4
         /\ BSeq(BDrop(f_out', BLen(f_out)), 4) = GoingAwayBytes
      ]_vars

\* CLOSE with payload 0x03 0xE8 has been read: status 1000
C13_Witness ==
    /\ pc = "done" /\ ret_log # <<>>
    /\ c_last = ClientFrame(OC_CLOSE, 1, FromSeq(<<3, 232>>), 0, 1, 0)
    /\ LastRet.type = WS_CLOSE /\ LastRet.status = 1000

\* the bytes the session writes in this step
Written == BDrop(f_out', BLen(f_out))

\* the reader of this session accepts the mask bit of the client's frame
MaskAccepted == ~(c_last.mask = 0 /\ ws.is_masked_client)

\* C14: for every PING frame the session reads, ping_recv_count grows by
\* one and exactly one PONG frame is written, unmasked, with fin = 1 and the
\* payload of the PING, and ws_wait does not return; for every PONG frame,
\* pong_recv_count grows by one and nothing is written.
C14_PingPong ==
    [][/\ (ReadsFrame /\ c_last.opcode = OC_PING /\ MaskAccepted) =>
            LET n == BLen(c_last.payload)
                h == IF n <= 125 THEN 2 ELSE 4
            IN  /\ ws'.ping_recv_count = ws.ping_recv_count + 1
                /\ ws'.pong_recv_count = ws.pong_recv_count
                /\ pc' = "wait" /\ ret_log' = ret_log
                /\ BLen(Written) = h + n
                /\ BAt(Written, 0) = 128 + OC_PONG
                /\ BAt(Written, 1) = (IF n <= 125 THEN n ELSE 126)
                /\ BEq(BDrop(Written, h), c_last.payload)
       /\ (ReadsFrame /\ c_last.opcode = OC_PONG /\ MaskAccepted) =>
                /\ ws'.pong_recv_count = ws.pong_recv_count + 1
                /\ ws'.ping_recv_count = ws.ping_recv_count
                /\ pc' = "wait" /\ ret_log' = ret_log
                /\ f_out' = f_out
      ]_vars

\* the header of an unmasked frame with fin set, for a payload of n bytes
EchoHeader(opcode, n) ==
    IF n <= 125 THEN <<128 + opcode, n>>
    ELSE IF n <= 65535 THEN <<128 + opcode, 126>> \o BeBytes(n, 2)
    ELSE <<128 + opcode, 127>> \o BeBytes(n, 8)

\* C18: in the step in which ws_wait returns WS_MSG_TXT or WS_MSG_BIN, and
\* so before the next frame is read, exactly one frame is written: fin set,
\* no mask, opcode TEXT for WS_MSG_TXT and BIN for WS_MSG_BIN, and as
\* payload the message just returned.  A step in which ws_wait does not
\* return writes no data frame, and a step in which it returns WS_CLOSE or
\* WS_ERROR writes the CLOSE frame of ws_free and nothing else, after which
\* f_out does not change any more.  So the echoes are on the output in the
\* order of the messages.
C18_Echo ==
    [][IF pc = "done" THEN f_out' = f_out
       ELSE IF ret_log' = ret_log
         THEN Written = <<>> \/ BAt(Written, 0) % 16 = OC_PONG
       ELSE LET entry == ret_log'[Len(ret_log')]
                n     == BLen(entry.msg)
                hdr   == EchoHeader(IF entry.type = WS_MSG_TXT THEN OC_TEXT
                                    ELSE OC_BIN, n)
            IN  /\ Len(ret_log') = Len(ret_log) + 1
                /\ IF entry.type \in {WS_MSG_TXT, WS_MSG_BIN}
                   THEN /\ pc' = "wait"
                        /\ BLen(Written) = Len(hdr) + n
                        /\ BSeq(Written, Len(hdr)) = hdr
                        /\ BEq(BDrop(Written, Len(hdr)), entry.msg)
                   ELSE /\ pc' = "done"
                        /\ BSeq(Written, BLen(Written)) = GoingAwayBytes
      ]_vars

\* a binary message and then a text message in two fragments have been
\* echoed, in that order
C18_Witness ==
    /\ Len(ret_log) = 2 /\ pc = "wait" /\ f_in = <<>>
    /\ ret_log[1].type = WS_MSG_BIN /\ BEq(ret_log[1].msg, PayBang)
    /\ ret_log[2].type = WS_MSG_TXT /\ BLen(ret_log[2].msg) = 4
    /\ BSeq(f_out, BLen(f_out)) = <<137, 0>> \o <<130, 1, 33>>
                                    \o <<129, 4, 72, 105, 72, 105>>

(***************************************************************************)
(* The sandbox: http_init and realpath_uri (http.c), sz_starts_with (sz.c) *)
(* A path is a sequence of characters; NULL is <<>>.                       *)
(***************************************************************************)
PATH_MAX == 1024

\* sz_starts_with(sz,prefix) is sz_starts_with_case(sz,prefix,false): the
\* loop stops at the end of either string and the result is *j==0
sz_starts_with(sz, prefix) ==
    /\ Len(prefix) <= Len(sz)
    /\ \A k \in 1..Len(prefix) : sz[k] = prefix[k]

\* ---- the file system realpath(3) and stat(2) consult.  A node is named
\* by the sequence of its components from the root directory.
Dir     == [type |-> "dir",  target |-> <<>>, size |-> 0]
\* st_size is an off_t of 64 bits: the value hi * 2^31 + lo, lo < 2^31
Off(hi, lo) == [hi |-> hi, lo |-> lo]
File(n) == [type |-> "file", target |-> <<>>, size |-> Off(0, n)]
BigFile(hi, lo) == [type |-> "file", target |-> <<>>, size |-> Off(hi, lo)]
Link(t) == [type |-> "link", target |-> t, size |-> 0]

\*  /w          the directory the server is started on
\*  /w/i        a file (index.html)   /w/d/f   an empty file
\*  /w/b        a file of 2^31 bytes
\*  /w/l        a link out of the directory, to /e
\*  /w/d/u      a relative link, to ../i
\*  /w2/s       a file in a directory whose name begins with "w"
\*  /e/p        a file elsewhere
FS ==
    (<<>> :> Dir)
    @@ (<< <<"w">> >> :> Dir)
    @@ (<< <<"w">>, <<"i">> >> :> File(5))
    @@ (<< <<"w">>, <<"b">> >> :> BigFile(1, 0))
    @@ (<< <<"w">>, <<"d">> >> :> Dir)
    @@ (<< <<"w">>, <<"d">>, <<"f">> >> :> File(0))
    @@ (<< <<"w">>, <<"l">> >> :> Link(<<"/", "e">>))
    @@ (<< <<"w">>, <<"d">>, <<"u">> >> :> Link(<<".", ".", "/", "i">>))
    @@ (<< <<"w", "2">> >> :> Dir)
    @@ (<< <<"w", "2">>, <<"s">> >> :> File(3))
    @@ (<< <<"e">> >> :> Dir)
    @@ (<< <<"e">>, <<"p">> >> :> File(7))

\* the working directory of the process
Cwd == <<>>

RECURSIVE SortedSeq(_)
SortedSeq(S) ==
    IF S = {} THEN <<>>
    ELSE LET m == CHOOSE x \in S : \A y \in S : x <= y
         IN  <<m>> \o SortedSeq(S \ {m})

\* the tokens of a string: the maximal runs of characters other than the
\* delimiter d (the components of a path, the tokens strtok returns)
TokStarts(p, d) == {k \in 1..Len(p) : p[k] # d /\ (k = 1 \/ p[k-1] = d)}
TokEnd(p, d, k) ==
    CHOOSE j \in k..Len(p) :
        /\ j = Len(p) \/ p[j+1] = d
        /\ \A m \in k..j : p[m] # d
Tokens(p, d) ==
    LET st == SortedSeq(TokStarts(p, d))
    IN  [n \in 1..Len(st) |-> SubSeq(p, st[n], TokEnd(p, d, st[n]))]
Components(p) == Tokens(p, "/")

RECURSIVE JoinPath(_)
JoinPath(cs) ==
    IF cs = <<>> THEN <<>> ELSE <<"/">> \o Head(cs) \o JoinPath(Tail(cs))
PathOf(cs) == IF cs = <<>> THEN <<"/">> ELSE JoinPath(cs)

\* realpath(3): cur is the directory reached so far (canonical), comps the
\* components still to resolve, slash whether the path ended in '/'
RECURSIVE realpath_walk(_, _, _)
realpath_walk(cur, comps, slash) ==
    IF comps = <<>> THEN [path |-> PathOf(cur), errno |-> "none"]
    ELSE LET c    == Head(comps)
             rest == Tail(comps)
             nxt  == Append(cur, c)
         IN  IF c = <<".">> THEN realpath_walk(cur, rest, slash)
             ELSE IF c = <<".", ".">>
               THEN realpath_walk(IF cur = <<>> THEN cur
                                  ELSE SubSeq(cur, 1, Len(cur) - 1), rest, slash)
             ELSE IF nxt \notin DOMAIN FS
               THEN [path |-> <<>>, errno |-> "ENOENT"]
             ELSE IF FS[nxt].type = "link"
               THEN realpath_walk(IF FS[nxt].target[1] = "/" THEN <<>> ELSE cur,
                                  Components(FS[nxt].target) \o rest, slash)
             ELSE IF FS[nxt].type = "file" /\ (rest # <<>> \/ slash)
               THEN [path |-> <<>>, errno |-> "ENOTDIR"]
             ELSE realpath_walk(nxt, rest, slash)

realpath(p) ==
    IF p = <<>> THEN [path |-> <<>>, errno |-> "ENOENT"]
    ELSE realpath_walk(IF p[1] = "/" THEN <<>> ELSE Cwd,
                       Components(p), p[Len(p)] = "/")

\* What realpath(p, resolved) may leave in resolved when it fails, the
\* buffer holding old before the call.  POSIX leaves the contents
\* undefined: a C library that builds the result elsewhere leaves old, the
\* GNU one leaves the name of the component that could not be resolved.
RECURSIVE realpath_failed_at(_, _, _)
realpath_failed_at(cur, comps, slash) ==
    LET c    == Head(comps)
        rest == Tail(comps)
        nxt  == Append(cur, c)
    IN  IF c = <<".">> THEN realpath_failed_at(cur, rest, slash)
        ELSE IF c = <<".", ".">>
          THEN realpath_failed_at(IF cur = <<>> THEN cur
                                  ELSE SubSeq(cur, 1, Len(cur) - 1), rest, slash)
        ELSE IF nxt \notin DOMAIN FS THEN PathOf(nxt)
        ELSE IF FS[nxt].type = "link"
          THEN realpath_failed_at(IF FS[nxt].target[1] = "/" THEN <<>> ELSE cur,
                                  Components(FS[nxt].target) \o rest, slash)
        ELSE IF FS[nxt].type = "file" /\ (rest # <<>> \/ slash) THEN PathOf(nxt)
        ELSE realpath_failed_at(nxt, rest, slash)
resolved_path(p, old) ==
    IF p = <<>> \/ realpath(p).errno = "none" THEN {old}
    ELSE {old, realpath_failed_at(IF p[1] = "/" THEN <<>> ELSE Cwd,
                                  Components(p), p[Len(p)] = "/")}

\* io_is_dir: stat follows links, S_ISDIR
io_is_dir(p) ==
    LET r == realpath(p)
    IN  /\ r.errno = "none"
        /\ \E k \in DOMAIN FS : PathOf(k) = r.path /\ FS[k].type = "dir"

\* http_init: the new _static_files_dir, _static_files_dir_len, the return
\* value and errno.  When realpath fails, dir is the buffer as a realpath
\* that does not touch it leaves it; resolved_path has the other outcome.
\* http_init without the test of io_is_dir
http_init_any_node(icky_files_dir, dir, len) ==
    LET r == realpath(icky_files_dir)
    IN  IF r.errno # "none"
          THEN [ret |-> -1, errno |-> r.errno, dir |-> dir, len |-> len]
        ELSE IF r.path = <<"/">>
          THEN [ret |-> -1, errno |-> "EPERM", dir |-> r.path, len |-> len]
        ELSE [ret |-> 0, errno |-> "none", dir |-> r.path, len |-> Len(r.path)]
http_init(icky_files_dir, dir, len) ==
    LET r == realpath(icky_files_dir)
        l == Len(r.path)
        trimmed == IF r.path[l] = "/" THEN SubSeq(r.path, 1, l - 1) ELSE r.path
    IN  IF r.errno # "none"
          THEN [ret |-> -1, errno |-> r.errno, dir |-> dir, len |-> len]
        ELSE IF r.path = <<"/">>
          THEN [ret |-> -1, errno |-> "EPERM", dir |-> r.path, len |-> len]
        ELSE IF Len(trimmed) = 0
          THEN [ret |-> -1, errno |-> "EPERM", dir |-> trimmed, len |-> 0]
        ELSE IF ~io_is_dir(trimmed)
          THEN [ret |-> -1, errno |-> "ENOTDIR", dir |-> trimmed,
                len |-> Len(trimmed)]
        ELSE [ret |-> 0, errno |-> "none", dir |-> trimmed,
              len |-> Len(trimmed)]

\* the string handed to sz_starts_with in realpath_uri: the result of
\* realpath, not the concatenation
containment_subject_raw(path, icky_path) == icky_path
containment_subject(path, icky_path) == path

\* realpath_uri: the path returned (<<>> is NULL) and errno
realpath_uri(uri, dir, len) ==
    IF len + Len(uri) >= PATH_MAX
      THEN [path |-> <<>>, errno |-> "ENAMETOOLONG"]
    ELSE LET icky_path == dir \o uri
             r == realpath(icky_path)
         IN  IF r.errno # "none" THEN [path |-> <<>>, errno |-> r.errno]
             ELSE IF ~sz_starts_with(containment_subject(r.path, icky_path), dir)
               THEN [path |-> <<>>, errno |-> "EPERM"]
             ELSE [path |-> r.path, errno |-> "none"]

(***************************************************************************)
(* SpecPath: http_init on some directory, then the worker of a connection  *)
(* calls realpath_uri on the URI of its request                            *)
(***************************************************************************)
\* a URI is made of at most MaxSegs of the pieces UriSegs
MaxSegs == 3

RawDirs ==
    { <<"/", "w">>, <<"/", "w", "/">>, <<"w">>, <<".", "/", "w", "/">>,
      <<"/", "w", "/", "d">>, <<"/", "w", "/", "l">>, <<"/", "w", "2">>,
      <<"/">>, <<"/", "w", "/", ".", ".">>, <<"/", "w", "/", "i">>,
      <<"/", "x">>, <<>>, <<"/", "w", "/", "i", "/">> }

UriSegs ==
    { <<"/">>, <<"/", ".", ".">>, <<"/", ".">>, <<"/", "i">>, <<"/", "d">>,
      <<"/", "l">>, <<"/", "u">>, <<"/", "s">>, <<"/", "e">>,
      <<"/", "w", "2">>, <<"2">> }

RECURSIVE Concat(_)
Concat(segs) == IF segs = <<>> THEN <<>> ELSE Head(segs) \o Concat(Tail(segs))

Slashes(n) == [k \in 1..n |-> "/"]

\* URIs as long as PATH_MAX allows and just longer: a piece after slashes
LongUris(len) ==
    {Slashes(PATH_MAX - len - Len(sg) + k) \o sg :
        sg \in {<<"/", "i">>, <<"/", "x">>, <<"2">>}, k \in {-1, 0, 1}}

PathInit ==
    /\ static_files_dir = <<>> /\ static_files_dir_len = 0
    /\ http_init_ret = NotCalled /\ uri_in = <<>> /\ path_out = NoCall
    /\ CodecIdle /\ WsIdle /\ HttpIdle /\ ApiIdle /\ IoIdle /\ HdrIdle /\ ServerIdle /\ HtIdle

HttpInit(icky_files_dir) ==
    /\ http_init_ret = NotCalled
    /\ LET r == http_init(icky_files_dir, static_files_dir, static_files_dir_len)
       IN  /\ static_files_dir' \in resolved_path(icky_files_dir, r.dir)
           /\ static_files_dir_len' = r.len
           /\ http_init_ret' = r.ret
           /\ path_out' = [call |-> "http_init", path |-> <<>>, errno |-> r.errno]
    /\ UNCHANGED <<uri_in, codecVars, wsVars, httpVars, apiVars, ioVars, hdrVars, serverVars, htVars>>

\* http_init is called again, as the unit tests call it: on the buffer and
\* the length the calls before it left
HttpInitAgain(icky_files_dir) ==
    /\ http_init_ret # NotCalled /\ path_out.call = "http_init"
    /\ LET r == http_init(icky_files_dir, static_files_dir, static_files_dir_len)
       IN  /\ static_files_dir' \in resolved_path(icky_files_dir, r.dir)
           /\ static_files_dir_len' = r.len
           /\ http_init_ret' = r.ret
           /\ path_out' = [call |-> "http_init", path |-> <<>>, errno |-> r.errno]
    /\ UNCHANGED <<uri_in, codecVars, wsVars, httpVars, apiVars, ioVars, hdrVars, serverVars, htVars>>

\* http_init succeeded and the worker has not resolved its URI yet
Serving == http_init_ret = 0 /\ path_out.call = "http_init"

RealpathUri(uri) ==
    /\ Serving
    /\ uri_in' = uri
    /\ LET r == realpath_uri(uri, static_files_dir, static_files_dir_len)
       IN  path_out' = [call |-> "realpath_uri", path |-> r.path, errno |-> r.errno]
    /\ UNCHANGED <<static_files_dir, static_files_dir_len, http_init_ret,
                   codecVars, wsVars, httpVars, apiVars, ioVars, hdrVars, serverVars, htVars>>

\* the URI of the request: some pieces, or a long one
RequestUri ==
    /\ Serving
    /\ \E n \in 0..MaxSegs : \E segs \in [1..n -> UriSegs] :
           RealpathUri(Concat(segs))

RequestLongUri ==
    /\ Serving
    /\ \E uri \in LongUris(static_files_dir_len) : RealpathUri(uri)

PathNext ==
    \/ \E icky_files_dir \in RawDirs : HttpInit(icky_files_dir)
    \/ RequestUri
    \/ RequestLongUri

SpecPath == PathInit /\ [][PathNext]_vars

\* the calls of UT_TEST_CASE(http_init) and UT_TEST_CASE(http_realpath_uri):
\* http_init any number of times, then realpath_uri if the last call succeeded
ReinitNext ==
    \/ \E icky_files_dir \in RawDirs : HttpInit(icky_files_dir)
    \/ \E icky_files_dir \in RawDirs : HttpInitAgain(icky_files_dir)
    \/ RequestUri

SpecReinit == PathInit /\ [][ReinitNext]_vars

\* ---- claims about the sandbox
Resolved == path_out.call = "realpath_uri" /\ path_out.errno = "none"

\* P names a node of the file system by its canonical name: no link on
\* the way, every component but the last a directory
CanonicalExisting(P) ==
    \E k \in DOMAIN FS :
        /\ PathOf(k) = P
        /\ FS[k].type # "link"
        /\ \A n \in 0..(Len(k) - 1) : FS[SubSeq(k, 1, n)].type = "dir"

\* C3: every path that realpath_uri returns is the static files directory
\* itself or an entry below it (the directory, a '/', more components); an
\* entry of a sibling whose name begins with the directory's name is never
\* returned, whether the URI starts with '/' or not.
C3_ResolveInsideSandbox ==
    Resolved =>
        \/ path_out.path = static_files_dir
        \/ sz_starts_with(path_out.path, static_files_dir \o <<"/">>)

\* C4: after a successful http_init with directory R, realpath_uri(U)
\* fails with ENAMETOOLONG exactly when |R|+|U| >= PATH_MAX, otherwise
\* fails with the errno of realpath when R U does not exist, otherwise
\* fails with EPERM when the canonical path does not start with R,
\* otherwise returns the canonical path, which exists and starts with R.
C4_ResolveOutcome ==
    path_out.call = "realpath_uri" =>
        LET R == static_files_dir
            U == uri_in
            P == path_out.path
            e == path_out.errno
            canon == realpath(R \o U)
        IN  /\ e \in {"none", "ENAMETOOLONG", "ENOENT", "ENOTDIR", "EPERM"}
            /\ (e = "ENAMETOOLONG") <=> (Len(R) + Len(U) >= PATH_MAX)
            /\ e # "none" => P = <<>>
            /\ e \in {"ENOENT", "ENOTDIR"} => canon.errno = e
            /\ e = "EPERM" =>
                   canon.errno = "none" /\ ~sz_starts_with(canon.path, R)
            /\ e = "none" =>
                   /\ P = canon.path
                   /\ CanonicalExisting(P)
                   /\ sz_starts_with(P, R)
                   /\ Len(R) + Len(U) < PATH_MAX

C4_Witness ==
    /\ Resolved
    /\ static_files_dir = <<"/", "w">>
    /\ uri_in = <<"/", "d", "/", ".", ".", "/", "i">>
    /\ path_out.path = <<"/", "w", "/", "i">>

(***************************************************************************)
(* One request: http_client_connect, parse_headers, dispatch_http and the  *)
(* handshake of dispatch_websocket (http.c, ws.c).  Strings are sequences  *)
(* of characters; a NULL pointer is NULL.                                  *)
(***************************************************************************)
NULL == <<"NULL">>

UpperCase == 
    <<"A", "B", "C", "D", "E", "F", "G", "H", "I", "J", "K", "L", "M",
    "N", "O", "P", "Q", "R", "S", "T", "U", "V", "W", "X", "Y", "Z">>
LowerCase == 
    <<"a", "b", "c", "d", "e", "f", "g", "h", "i", "j", "k", "l", "m",
    "n", "o", "p", "q", "r", "s", "t", "u", "v", "w", "x", "y", "z">>
Digits    == <<"0", "1", "2", "3", "4", "5", "6", "7", "8", "9">>

\* tolower in the C locale: the lower-case letter of an upper-case letter,
\* every other character unchanged
LowerOf ==
    [c \in {UpperCase[k] : k \in 1..26} |->
        LowerCase[CHOOSE k \in 1..26 : UpperCase[k] = c]]
tolower(c) == IF c \in DOMAIN LowerOf THEN LowerOf[c] ELSE c
sz_to_lower(sz) == [k \in 1..Len(sz) |-> tolower(sz[k])]

sz_equal_ignore_case(sz1, sz2) ==
    IF sz1 = NULL \/ sz2 = NULL THEN sz1 = sz2
    ELSE /\ Len(sz1) = Len(sz2)
         /\ \A k \in 1..Len(sz1) : tolower(sz1[k]) = tolower(sz2[k])

\* sz_trim: leading and trailing " \t\n\r" removed
SP_HT == {" ", "\t", "\n", "\r"}
sz_trim(sz) ==
    LET keep == {k \in 1..Len(sz) : sz[k] \notin SP_HT}
    IN  IF keep = {} THEN <<>>
        ELSE SubSeq(sz, CHOOSE k \in keep : \A j \in keep : k <= j,
                        CHOOSE k \in keep : \A j \in keep : k >= j)

IsDigit(c) == \E k \in 1..10 : Digits[k] = c
DigitVal(c) == (CHOOSE k \in 1..10 : Digits[k] = c) - 1

\* atoi: an optional sign, then the digits up to the first other character
RECURSIVE atoi_digits(_, _)
atoi_digits(sz, acc) ==
    IF sz = <<>> \/ ~IsDigit(Head(sz)) THEN acc
    ELSE atoi_digits(Tail(sz), acc * 10 + DigitVal(Head(sz)))
atoi(sz) ==
    IF sz # <<>> /\ sz[1] = "-" THEN 0 - atoi_digits(Tail(sz), 0)
    ELSE IF sz # <<>> /\ sz[1] = "+" THEN atoi_digits(Tail(sz), 0)
    ELSE atoi_digits(sz, 0)

\* the number of characters a %d of sscanf takes from the front of sz
\* (0: no match)
RECURSIVE DigitRun(_)
DigitRun(sz) ==
    IF sz = <<>> \/ ~IsDigit(Head(sz)) THEN 0 ELSE 1 + DigitRun(Tail(sz))
ScanInt(sz) ==
    IF sz # <<>> /\ sz[1] \in {"-", "+"}
      THEN (IF DigitRun(Tail(sz)) = 0 THEN 0 ELSE 1 + DigitRun(Tail(sz)))
      ELSE DigitRun(sz)

\* 2 == sscanf(version,"HTTP/%d.%d",&v_maj,&v_min)
sscanf_version(version) ==
    /\ sz_starts_with(version, <<"H", "T", "T", "P", "/">>)
    /\ LET r1 == SubSeq(version, 6, Len(version))
           n1 == ScanInt(r1)
       IN  /\ n1 > 0
           /\ Len(r1) > n1
           /\ r1[n1 + 1] = "."
           /\ ScanInt(SubSeq(r1, n1 + 2, Len(r1))) > 0

M_UNKNOWN == 0
M_GET     == 1
M_POST    == 3
M_PUT     == 4
M_DELETE  == 6

\* http_method with strcmp in the place of sz_equal_ignore_case
http_method_strcmp(sz_method) ==
    IF sz_method = <<"G", "E", "T">> THEN M_GET
    ELSE IF sz_method = <<"P", "O", "S", "T">> THEN M_POST
    ELSE IF sz_method = <<"P", "U", "T">> THEN M_PUT
    ELSE IF sz_method = <<"D", "E", "L", "E", "T", "E">> THEN M_DELETE
    ELSE M_UNKNOWN

http_method(sz_method) ==
    IF sz_equal_ignore_case(<<"G", "E", "T">>, sz_method) THEN M_GET
    ELSE IF sz_equal_ignore_case(<<"P", "O", "S", "T">>, sz_method) THEN M_POST
    ELSE IF sz_equal_ignore_case(<<"P", "U", "T">>, sz_method) THEN M_PUT
    ELSE IF sz_equal_ignore_case(<<"D", "E", "L", "E", "T", "E">>, sz_method) THEN M_DELETE
    ELSE M_UNKNOWN

H_CONTENT_LENGTH == 
    <<"c", "o", "n", "t", "e", "n", "t", "-", "l", "e", "n", "g", "t",
    "h">>
H_EXPECT == <<"e", "x", "p", "e", "c", "t">>
H_CONNECTION == <<"c", "o", "n", "n", "e", "c", "t", "i", "o", "n">>
H_UPGRADE == <<"u", "p", "g", "r", "a", "d", "e">>
HV_EXPECT_100_CONTINUE == 
    <<"1", "0", "0", "-", "c", "o", "n", "t", "i", "n", "u", "e">>
H_SEC_WEBSOCKET_KEY == 
    <<"s", "e", "c", "-", "w", "e", "b", "s", "o", "c", "k", "e", "t",
    "-", "k", "e", "y">>
H_SEC_WEBSOCKET_ACCEPT == 
    <<"s", "e", "c", "-", "w", "e", "b", "s", "o", "c", "k", "e", "t",
    "-", "a", "c", "c", "e", "p", "t">>
WS_UPGRADE == <<"w", "e", "b", "s", "o", "c", "k", "e", "t">>

HTTP_OK == 200
HTTP_CREATED == 201
HTTP_BAD_REQUEST == 400
HTTP_NOT_FOUND == 404
HTTP_METHOD_NOT_ALLOWED == 405
HTTP_OK_REASON == "OK"
HTTP_NOT_FOUND_REASON == "Not Found"

\* ---- what the handler writes to the client, one element per fprintf
StatusLine(code, reason) == [w |-> "status", code |-> code, reason |-> reason]
HeaderLine(name, val)    == [w |-> "header", name |-> name, val |-> val]
EndOfHeaders             == [w |-> "crlf"]
Body(len)                == [w |-> "body", len |-> len]
\* fflush of the output stream
Flush                    == [w |-> "fflush"]
\* one read(2) on fd_in and what it returned: a number of body bytes, 0 at
\* the end of the stream, -1 for a failure
Read(cb_read)            == [w |-> "read", cb_read |-> cb_read]
\* the file system is used: realpath_uri(uri) and stat, open(uri_path)
Stat(uri)        == [w |-> "realpath_uri", uri |-> uri]
Open(uri_path, ok)       == [w |-> "open", uri_path |-> uri_path, ok |-> ok]
\* what was written, without the marks of fflush, read, realpath_uri, open
Wire(out) ==
    SelectSeq(out, LAMBDA x : x.w \notin {"fflush", "read", "realpath_uri", "open"})

\* ---- the headers: a hash table from lower-case names to trimmed values
\* (tab), or the NULL pointer (null)
\* parse_headers: NULL when the header block ends before its empty line;
\* a line without name or value is skipped; a later line replaces an
\* earlier one of the same name
RECURSIVE ht_put_lines(_, _)
ht_put_lines(headers, lines) ==
    IF lines = <<>> THEN headers
    ELSE LET h == Head(lines)
             name == sz_to_lower(h.name)
             val  == sz_trim(h.val)
         IN  ht_put_lines(
                 IF h.name = <<>> \/ h.val = <<>> THEN headers
                 ELSE [n \in DOMAIN headers \cup {name} |->
                          IF n = name THEN val ELSE headers[n]],
                 Tail(lines))
ht_create == [n \in {} |-> NULL]
parse_headers(hdr_ok, lines) ==
    IF ~hdr_ok THEN [null |-> TRUE, tab |-> ht_create]
    ELSE [null |-> FALSE, tab |-> ht_put_lines(ht_create, lines)]

ht_get(headers, name) ==
    IF name \in DOMAIN headers.tab THEN headers.tab[name] ELSE NULL

ws_is_upgradable_connection(headers) ==
    /\ ht_get(headers, H_CONNECTION) # NULL
    /\ sz_equal_ignore_case(ht_get(headers, H_CONNECTION), H_UPGRADE)
    /\ ht_get(headers, H_UPGRADE) # NULL
    /\ sz_equal_ignore_case(ht_get(headers, H_UPGRADE), WS_UPGRADE)
ws_is_upgradable(headers) ==
    /\ ht_get(headers, H_UPGRADE) # NULL
    /\ sz_equal_ignore_case(ht_get(headers, H_UPGRADE), WS_UPGRADE)

\* the value of sec-websocket-accept: base64 of the SHA-1 of key and magic
ws_accept(ws_key) == [b64_sha1_of |-> ws_key, magic |-> "WS_MAGIC"]

\* _ws_handshake: what it writes, and whether it succeeded
ws_handshake(headers) ==
    IF ~sz_equal_ignore_case(WS_UPGRADE, ht_get(headers, H_UPGRADE))
      THEN [ok |-> FALSE, out |-> <<>>]
    ELSE IF ht_get(headers, H_SEC_WEBSOCKET_KEY) = NULL
      THEN [ok |-> FALSE, out |-> <<>>]
    ELSE [ok |-> TRUE,
          out |-> << StatusLine(101, "Switching Protocols"),
                     HeaderLine(H_CONNECTION, H_UPGRADE),
                     HeaderLine(H_UPGRADE, WS_UPGRADE),
                     HeaderLine(H_SEC_WEBSOCKET_ACCEPT,
                                ws_accept(ht_get(headers, H_SEC_WEBSOCKET_KEY))),
                     EndOfHeaders, Flush >>]

\* the bytes of one WebSocket frame on the output; write_dataframe ends
\* with fflush
Frame(bytes) == [w |-> "frame", bytes |-> BSeq(bytes, BLen(bytes))]

\* ws_upgrade: the session (NoSession is NULL) and what was written to f_out
ws_upgrade_no_ping(f_in_, f_out_, headers, masked_client) ==
    LET hs == ws_handshake(headers)
    IN  IF ~hs.ok THEN [ws |-> NoSession, out |-> <<>>]
        ELSE [ws |-> ws_create(f_in_, f_out_, masked_client).ws
                       @@ [freed |-> FALSE],
              out |-> hs.out]
ws_upgrade(f_in_, f_out_, headers, masked_client) ==
    LET hs == ws_handshake(headers)
        c  == ws_create(f_in_, f_out_, masked_client)
    IN  IF ~hs.ok THEN [ws |-> NoSession, out |-> <<>>]
        ELSE [ws |-> c.ws @@ [freed |-> FALSE],
              out |-> hs.out \o <<Frame(c.out), Flush>>]

\* dispatch_websocket: ws_upgrade, then the session until ws_wait returns
\* WS_CLOSE (ret_code 0) or WS_ERROR (ret_code -1); the session itself is
\* SpecWs, here only its outcome session_ret
dispatch_websocket(headers, session_ret) ==
    LET up == ws_upgrade("f_in", "f_out", headers, TRUE)
    IN  IF up.ws = NoSession
          THEN [ret |-> -1, out |-> <<>>, body_read |-> 0, double_free |-> FALSE,
                malloc |-> 0, free |-> 0]
          ELSE [ret |-> session_ret, out |-> up.out, body_read |-> 0,
                double_free |-> FALSE, malloc |-> 0, free |-> 0]

\* "/" is served from "/index.html"; the file system of the model calls
\* that file i
IndexUri == <<"/", "i">>

\* the node a canonical path names
NodeOf(path) == FS[CHOOSE k \in DOMAIN FS : PathOf(k) = path]

\* the value of an int of 32 bits that is assigned an off_t: the low 32
\* bits, bit 31 being the sign
int32(off) ==
    IF off.hi % 2 = 0 THEN off.lo ELSE (off.lo - 2147483647) - 1

\* dispatch_http: the expect header asks for an interim response
expect_continue_case(headers) ==
    ht_get(headers, H_EXPECT) = HV_EXPECT_100_CONTINUE
expect_continue(headers) ==
    /\ ht_get(headers, H_EXPECT) # NULL
    /\ sz_equal_ignore_case(ht_get(headers, H_EXPECT), HV_EXPECT_100_CONTINUE)

\* dispatch_http, the loop around read(2): what the calls return, in order.
\* The client sends avail bytes and then the stream ends (last_read 0) or a
\* read fails (last_read -1); one read returns chunk bytes at most.
RECURSIVE read_body(_, _, _, _, _)
read_body(cb_total, req_content_len, avail, chunk, last_read) ==
    IF cb_total >= req_content_len THEN <<>>
    ELSE LET cb_read == Min(Min(chunk, avail), req_content_len - cb_total)
         IN  IF cb_read = 0 THEN <<last_read>>
             ELSE <<cb_read>> \o read_body(cb_total + cb_read, req_content_len,
                                           avail - cb_read, chunk, last_read)

RECURSIVE Sum(_)
Sum(seq) == IF seq = <<>> THEN 0 ELSE Head(seq) + Sum(Tail(seq))

\* dispatch_http: body is the body stream the client sends (avail, chunk,
\* fail), open_ok whether open(2) succeeds.  double_free: req_body is freed
\* after a failed read and freed again before the return.
dispatch_http(headers, method, uri, body, open_ok, dir, len) ==
    LET req_content_len ==
            IF ht_get(headers, H_CONTENT_LENGTH) # NULL
              THEN atoi(ht_get(headers, H_CONTENT_LENGTH)) ELSE 0
        continue ==
            IF expect_continue(headers)
              THEN <<StatusLine(100, "Continue"), EndOfHeaders, Flush>>
              ELSE <<>>
        reads_body == method \in {M_POST, M_PUT} /\ req_content_len > 0
        reads == IF reads_body
                   THEN read_body(0, req_content_len, body.avail, body.chunk,
                                  IF body.fail THEN -1 ELSE 0)
                   ELSE <<>>
        cut_short == reads # <<>> /\ reads[Len(reads)] <= 0
        cb_total == Sum(SelectSeq(reads, LAMBDA cb_read : cb_read > 0))
        get_uri  == IF uri = <<"/">> THEN IndexUri ELSE uri
        uri_path == realpath_uri(get_uri, dir, len).path
        is_reg   == uri_path # <<>> /\ NodeOf(uri_path).type = "file"
        found    == is_reg /\ open_ok
        files    == IF method # M_GET THEN <<>>
                    ELSE <<Stat(get_uri)>>
                         \o (IF is_reg THEN <<Open(uri_path, open_ok)>> ELSE <<>>)
        rsp_code ==
            IF method \in {M_POST, M_PUT}
              THEN (IF cut_short THEN HTTP_BAD_REQUEST ELSE HTTP_CREATED)
            ELSE IF method = M_GET
              THEN (IF found THEN HTTP_OK ELSE HTTP_NOT_FOUND)
            ELSE HTTP_METHOD_NOT_ALLOWED
        rsp_reason ==
            IF method = M_GET
              THEN (IF found THEN HTTP_OK_REASON ELSE HTTP_NOT_FOUND_REASON)
              ELSE ""
        \* int rsp_content_len = uri_stat.st_size
        rsp_content_len ==
            IF method = M_GET /\ found THEN int32(NodeOf(uri_path).size) ELSE 0
        \* io_copy_stream copies the file to its end
        rsp_body ==
            IF method = M_GET /\ found
              THEN <<Body(NodeOf(uri_path).size)>> ELSE <<>>
    IN  [ret |-> rsp_code,
         out |-> continue
                 \o [k \in 1..Len(reads) |-> Read(reads[k])]
                 \o files
                 \o <<StatusLine(rsp_code, rsp_reason)>>
                 \o (IF rsp_content_len > 0
                       THEN <<HeaderLine("Content-Length", rsp_content_len)>>
                       ELSE <<>>)
                 \o <<EndOfHeaders, Flush>>
                 \o rsp_body,
         body_read |-> cb_total,
         double_free |-> cut_short /\ reads[Len(reads)] < 0,
         \* req_body = malloc(req_content_len); free(req_body) after a failed
         \* read; if(req_body) free(req_body) before the return
         malloc |-> IF reads_body THEN 1 ELSE 0,
         free |-> (IF cut_short /\ reads[Len(reads)] < 0 THEN 1 ELSE 0)
                  + (IF reads_body THEN 1 ELSE 0)]

\* http_client_connect: what it writes, what it returns, how much of the
\* body it read
http_client_connect(rq, open_ok, session_ret, dir, len) ==
    LET tok       == Tokens(rq.line, " ")
        nothing   == [out |-> <<>>, body_read |-> 0, double_free |-> FALSE,
                      malloc |-> 0, free |-> 0]
        headers   == parse_headers(rq.hdr_ok, rq.header_lines)
    IN  IF ~rq.line_ok THEN [ret |-> HTTP_BAD_REQUEST] @@ nothing
        ELSE IF Len(tok) < 3 THEN [ret |-> HTTP_BAD_REQUEST] @@ nothing
        ELSE IF ~sscanf_version(tok[3]) THEN [ret |-> HTTP_BAD_REQUEST] @@ nothing
        ELSE IF http_method(tok[1]) = M_UNKNOWN
          THEN [ret |-> HTTP_METHOD_NOT_ALLOWED] @@ nothing
        ELSE IF headers.null THEN [ret |-> HTTP_BAD_REQUEST] @@ nothing
        ELSE IF ws_is_upgradable(headers)
          THEN dispatch_websocket(headers, session_ret)
        ELSE dispatch_http(headers, http_method(tok[1]), tok[2], rq.body,
                           open_ok, dir, len)

(***************************************************************************)
(* SpecHttp: a client sends one request to a server started on /w, and     *)
(* http_client_connect handles it                                          *)
(***************************************************************************)
\* the largest content-length and the most body bytes a client sends
MaxBody == 2

ReqMethods == { <<"G", "E", "T">>, <<"G", "e", "t">>, <<"P", "O", "S", "T">>,
                <<"P", "U", "T">>, <<"D", "E", "L", "E", "T", "E">>,
                <<"B", "O", "G", "U", "S">>,
                <<"p", "u", "t">>, <<"D", "e", "l", "e", "t", "e">>,
                <<"H", "E", "A", "D">>, <<"O", "P", "T", "I", "O", "N", "S">>,
                <<"T", "R", "A", "C", "E">>, <<"P", "A", "T", "C", "H">> }
ReqUris == { <<"/">>, <<"/", "d">>, <<"/", "d", "/", "f">>, <<"/", "x">>,
             <<"2", "/", "s">>, <<"/", "b">> }
ReqVersions == { <<"H", "T", "T", "P", "/", "1", ".", "1">>,
                 <<"H", "T", "T", "P", "/", "1", ".">>,
                 <<"h", "t", "t", "p", "/", "1", ".", "1">> }

\* the request line: the first ntok of method, uri and version
RequestLine(ntok, method, uri, version) ==
    IF ntok = 0 THEN <<>>
    ELSE IF ntok = 1 THEN method
    ELSE IF ntok = 2 THEN method \o <<" ">> \o uri
    ELSE method \o <<" ">> \o uri \o <<" ">> \o version

Hdr(name, val) == [name |-> name, val |-> val]
UpgradeLines ==
    { <<>>,
      <<Hdr(<<"U", "P", "G", "R", "A", "D", "E">>,
            <<" ", "W", "e", "b", "S", "o", "c", "k", "e", "t", " ">>)>>,
      <<Hdr(<<"U", "p", "g", "r", "a", "d", "e">>, <<" ", "h", "2", "c">>)>> }
KeyLines ==
    { <<>>, <<Hdr(
              <<"S", "e", "c", "-", "W", "e", "b", "S", "o", "c", "k", "e", "t",
                "-", "K", "e", "y">>, <<" ", "k">>)>> }
ExpectLines ==
    { <<>>,
      <<Hdr(<<"E", "x", "p", "e", "c", "t">>,
            <<" ", "1", "0", "0", "-", "C", "o", "n", "t", "i", "n", "u", "e">>)>>,
      <<Hdr(<<"E", "x", "p", "e", "c", "t">>,
            <<" ", "1", "0", "0", "-", "c", "o", "n", "t", "i", "n", "u", "e", "s">>)>> }
ContentLengthLines ==
    { <<>>,
      <<Hdr(<<"C", "o", "n", "t", "e", "n", "t", "-", "L", "e", "n", "g", "t", "h">>,
            <<" ", "-", "1">>)>> }
    \cup
    { <<Hdr(
              <<"C", "o", "n", "t", "e", "n", "t", "-", "L", "e", "n", "g", "t", "h">>,
              <<" ", Digits[n + 1]>>)>> : n \in 0..MaxBody }

\* the body the client sends: avail bytes, of which one read(2) returns
\* chunk at most, and then the end of the stream or (fail) a failing read
NoBody == [avail |-> 0, chunk |-> 1, fail |-> FALSE]
BodyStreams ==
    { [avail |-> avail, chunk |-> chunk, fail |-> fail] :
        avail \in 0..MaxBody, chunk \in 1..MaxBody, fail \in BOOLEAN }

HttpInitState ==
    /\ LET r == http_init(<<"/", "w">>, <<>>, 0)
       IN  /\ static_files_dir = r.dir
           /\ static_files_dir_len = r.len
           /\ http_init_ret = r.ret
           /\ path_out = [call |-> "http_init", path |-> <<>>, errno |-> r.errno]
    /\ uri_in = <<>>
    /\ HttpIdle /\ CodecIdle /\ WsIdle /\ ApiIdle /\ IoIdle /\ HdrIdle /\ ServerIdle /\ HtIdle

\* the client sends a request, whole or cut short
ClientRequest ==
    /\ req = NoReq
    /\ \/ \* the connection ends before the request line does
          req' = [line_ok |-> FALSE, line |-> <<>>, hdr_ok |-> FALSE,
                  header_lines |-> <<>>, body |-> NoBody]
       \/ \* a request line with fewer than three tokens
          \E method \in ReqMethods, uri \in ReqUris, ntok \in 0..2 :
              req' = [line_ok |-> TRUE,
                      line |-> RequestLine(ntok, method, uri, <<>>),
                      hdr_ok |-> TRUE, header_lines |-> <<>>, body |-> NoBody]
       \/ \* the header block is cut short
          \E method \in ReqMethods, uri \in ReqUris, version \in ReqVersions :
              req' = [line_ok |-> TRUE,
                      line |-> RequestLine(3, method, uri, version),
                      hdr_ok |-> FALSE, header_lines |-> <<>>, body |-> NoBody]
       \/ \* a whole request without headers
          \E method \in ReqMethods, uri \in ReqUris, version \in ReqVersions :
              req' = [line_ok |-> TRUE,
                      line |-> RequestLine(3, method, uri, version),
                      hdr_ok |-> TRUE, header_lines |-> <<>>, body |-> NoBody]
       \/ \* a whole request with headers and, maybe, a body
          \E method \in ReqMethods, up \in UpgradeLines, key \in KeyLines,
             ex \in ExpectLines, cl \in ContentLengthLines,
             body \in BodyStreams :
              req' = [line_ok |-> TRUE,
                      line |-> RequestLine(3, method, <<"/", "d", "/", "f">>,
                                           <<"H", "T", "T", "P", "/", "1", ".", "1">>),
                      hdr_ok |-> TRUE,
                      header_lines |-> up \o key \o ex \o cl,
                      body |-> body]
    /\ UNCHANGED <<http_out, http_ret, body_read, req_body, codecVars, wsVars, pathVars, apiVars, ioVars, hdrVars, serverVars, htVars>>

\* the process was killed by SIGABRT: http_client_connect did not return
Aborted == -6

HttpClientConnect ==
    /\ req # NoReq
    /\ http_ret = NotCalled
    \* open_ok matters to a GET only and session_ret to a session only, so
    \* the two are drawn together
    /\ \E open_ok \in BOOLEAN :
          LET session_ret == IF open_ok THEN 0 ELSE -1
              r == http_client_connect(req, open_ok, session_ret,
                                       static_files_dir, static_files_dir_len)
          IN  /\ http_out' = r.out
              \* a second free of the same block is undefined: the
              \* allocator lets it pass, or it detects it and calls abort
              /\ http_ret' \in IF r.double_free THEN {r.ret, Aborted}
                               ELSE {r.ret}
              /\ body_read' = r.body_read
              /\ req_body' = [malloc |-> r.malloc, free |-> r.free]
    /\ UNCHANGED <<req, codecVars, wsVars, pathVars, apiVars, ioVars, hdrVars, serverVars, htVars>>

HttpNext == ClientRequest \/ HttpClientConnect

SpecHttp == HttpInitState /\ [][HttpNext]_vars

\* ---- claims about the responses
Returned == http_ret # NotCalled
StatusLines == SelectSeq(http_out, LAMBDA x : x.w = "status")
FinalStatusLines ==
    SelectSeq(http_out, LAMBDA x : x.w = "status" /\ x.code # 100)
HandshakeDone == \E k \in 1..Len(StatusLines) : StatusLines[k].code = 101

\* C5: when the handler returns without having completed a handshake, it
\* has written exactly one final status line, and the code on it is the
\* value returned: a malformed request line or version gives a 400
\* response, an unknown method a 405 response, a header block cut short a
\* 400 response, an upgrade request without sec-websocket-key a status too.
C5_FailureBecomesResponse ==
    (Returned /\ ~HandshakeDone) =>
        /\ Len(FinalStatusLines) = 1
        /\ FinalStatusLines[1].code = http_ret

\* the reason phrase that belongs to a status code
ReasonPhrase(code) ==
    CASE code = 100 -> "Continue"
      [] code = 101 -> "Switching Protocols"
      [] code = 200 -> "OK"
      [] code = 201 -> "Created"
      [] code = 202 -> "Accepted"
      [] code = 400 -> "Bad Request"
      [] code = 404 -> "Not Found"
      [] code = 405 -> "Method Not Allowed"
      [] OTHER -> "?"

\* C6: every status line the handler writes carries the reason phrase of
\* its code (201 Created, 400 Bad Request, 405 Method Not Allowed, ...).
C6_ReasonPhraseMatchesCode ==
    \A k \in 1..Len(StatusLines) :
        StatusLines[k].reason = ReasonPhrase(StatusLines[k].code)

\* ---- claims about the body and the interim response
ReqTokens  == Tokens(req.line, " ")
ReqHeaders == parse_headers(req.hdr_ok, req.header_lines)
\* the handler has returned, and the request was one for dispatch_http
Dispatched ==
    /\ Returned /\ req.line_ok /\ req.hdr_ok
    /\ Len(ReqTokens) >= 3 /\ sscanf_version(ReqTokens[3])
    /\ http_method(ReqTokens[1]) # M_UNKNOWN
    /\ sz_to_lower(ht_get(ReqHeaders, H_UPGRADE)) # WS_UPGRADE
ReqContentLength ==
    IF ht_get(ReqHeaders, H_CONTENT_LENGTH) = NULL THEN 0
    ELSE atoi(ht_get(ReqHeaders, H_CONTENT_LENGTH))
\* what the calls of read(2) returned, in order
Reads ==
    LET rd == SelectSeq(http_out, LAMBDA x : x.w = "read")
    IN  [k \in 1..Len(rd) |-> rd[k].cb_read]

\* C19: a POST or PUT that is not an upgrade, with Content-Length n > 0:
\* when the client delivers n bytes, in reads of any size, the handler reads
\* exactly n bytes and returns 201; when the stream ends or a read fails
\* before that, it returns 400.  Without Content-Length, or with one that is
\* not positive, it calls read not once and returns 201.
C19_BodyRead ==
    (Dispatched /\ http_method(ReqTokens[1]) \in {M_POST, M_PUT}) =>
        IF ReqContentLength > 0
        THEN IF req.body.avail >= ReqContentLength
             THEN /\ body_read = ReqContentLength
                  /\ Sum(Reads) = ReqContentLength
                  /\ \A k \in 1..Len(Reads) : Reads[k] > 0
                  /\ http_ret = HTTP_CREATED
             ELSE /\ Reads # <<>> /\ Reads[Len(Reads)] <= 0
                  /\ body_read = req.body.avail
                  /\ http_ret = HTTP_BAD_REQUEST
        ELSE /\ Reads = <<>> /\ body_read = 0
             /\ http_ret = HTTP_CREATED

\* the positions of the interim responses on the output
Interim ==
    {k \in 1..Len(http_out) :
        http_out[k].w = "status" /\ http_out[k].code = 100}

GetUri  == IF ReqTokens[2] = <<"/">> THEN IndexUri ELSE ReqTokens[2]
GetPath == realpath_uri(GetUri, static_files_dir, static_files_dir_len).path
GetIsFile == GetPath # <<>> /\ NodeOf(GetPath).type = "file"
ContentLengths ==
    SelectSeq(http_out, LAMBDA x : x.w = "header" /\ x.name = "Content-Length")
Bodies == SelectSeq(http_out, LAMBDA x : x.w = "body")

\* C21: a GET whose URI ("/" standing for /index.html) resolves to a regular
\* file inside the sandbox, which open(2) opens, is answered 200 OK with the
\* header Content-Length: st_size, whatever the size (0 and 2^31 included),
\* and then the st_size bytes of the file; a GET whose URI does not resolve,
\* or resolves to something that is no regular file, is answered 404 with
\* no body.
C21_GetFile ==
    (Dispatched /\ http_method(ReqTokens[1]) = M_GET) =>
        IF GetIsFile
        THEN (\E k \in 1..Len(http_out) : http_out[k] = Open(GetPath, TRUE)) =>
                /\ http_ret = HTTP_OK
                /\ FinalStatusLines = <<StatusLine(HTTP_OK, HTTP_OK_REASON)>>
                /\ Len(ContentLengths) = 1
                /\ Off(0, ContentLengths[1].val) = NodeOf(GetPath).size
                /\ Bodies = <<Body(NodeOf(GetPath).size)>>
                /\ http_out[Len(http_out)].w = "body"
        ELSE /\ http_ret = HTTP_NOT_FOUND
             /\ Len(FinalStatusLines) = 1
             /\ FinalStatusLines[1].code = HTTP_NOT_FOUND
             /\ ContentLengths = <<>> /\ Bodies = <<>>

\* the request is whole and well formed, and it asks for no upgrade
WholeRequest ==
    /\ Returned /\ req.line_ok /\ req.hdr_ok
    /\ Len(ReqTokens) >= 3 /\ sscanf_version(ReqTokens[3])
    /\ sz_to_lower(ht_get(ReqHeaders, H_UPGRADE)) # WS_UPGRADE
\* the method token, whatever the case of its letters
MethodIs(names) == sz_to_lower(ReqTokens[1]) \in names
GetPostPut == { <<"g", "e", "t">>, <<"p", "o", "s", "t">>, <<"p", "u", "t">> }
FileMarks ==
    SelectSeq(http_out, LAMBDA x : x.w \in {"realpath_uri", "open"})

\* C22: the method token is matched whatever the case of its letters.  A
\* whole request that asks for no upgrade and whose method is none of GET,
\* POST and PUT (DELETE, HEAD, OPTIONS, TRACE, PATCH, any other token) makes
\* the handler return 405, with no read of a body, no use of the file
\* system and no status line of another code; one whose method is GET, POST
\* or PUT in any case does not return 405.
C22_MethodNotAllowed ==
    WholeRequest =>
        IF MethodIs(GetPostPut)
        THEN http_ret # HTTP_METHOD_NOT_ALLOWED
        ELSE /\ http_ret = HTTP_METHOD_NOT_ALLOWED
             /\ Reads = <<>> /\ body_read = 0
             /\ FileMarks = <<>> /\ Bodies = <<>>
             /\ \A k \in 1..Len(StatusLines) :
                   StatusLines[k].code \in {100, HTTP_METHOD_NOT_ALLOWED}

\* 'Delete /d/f HTTP/1.1' with Content-Length: 2 and a body on the stream
C22_Witness ==
    /\ WholeRequest
    /\ ReqTokens[1] = <<"D", "e", "l", "e", "t", "e">>
    /\ ReqContentLength = 2 /\ req.body.avail = 2
    /\ http_ret = HTTP_METHOD_NOT_ALLOWED
    /\ FinalStatusLines = <<StatusLine(HTTP_METHOD_NOT_ALLOWED, "")>>

(***************************************************************************)
(* SpecApi: the interface of ws.h called directly on a set of headers and   *)
(* two streams, as UT_TEST_CASE(ws_is_upgradable), (ws_not_upgradable) and  *)
(* (ws_already_closed) call it.  No call is made on a session after         *)
(* ws_free, which frees the struct.                                         *)
(***************************************************************************)
\* how many times ws_close is called on one session
MaxCalls == 3

WS_STATUS_NORMAL == 1000
WS_STATUS_PROTOCOL_ERROR == 1002

ConnectionLines ==
    { <<>>,
      <<Hdr(<<"C", "o", "n", "n", "e", "c", "t", "i", "o", "n">>,
            <<" ", "U", "p", "g", "r", "a", "d", "e">>)>>,
      <<Hdr(<<"c", "o", "n", "n", "e", "c", "t", "i", "o", "n">>,
            <<" ", "k", "e", "e", "p", "-", "a", "l", "i", "v", "e", ",",
              " ", "U", "p", "g", "r", "a", "d", "e">>)>> }
ApiUpgradeLines ==
    UpgradeLines \cup
    { <<Hdr(H_UPGRADE, WS_UPGRADE)>>,
      <<Hdr(H_UPGRADE, <<"w", "e", "b">>)>>,
      <<Hdr(H_UPGRADE, WS_UPGRADE \o <<"s">>)>>,
      <<Hdr(H_UPGRADE, <<"w", "e", "b", "s", "o", "c", "k", "e", "T">>)>> }

\* the streams of the session: two objects, or one object for both
ApiStreams == { <<"in", "out">>, <<"io", "io">> }

ApiInit ==
    /\ \E up \in ApiUpgradeLines, conn \in ConnectionLines, key \in KeyLines :
          api_headers = parse_headers(TRUE, conn \o up \o key)
    /\ api_ws = NoSession
    /\ api_out = <<>>
    /\ api_fclose = <<>>
    /\ api_log = <<>>
    /\ CodecIdle /\ WsIdle /\ PathIdle /\ HttpIdle /\ IoIdle /\ HdrIdle /\ ServerIdle /\ HtIdle

ApiCalled(call) == \E k \in 1..Len(api_log) : api_log[k].call = call

\* ws_is_upgradable(headers), before anything else
ApiIsUpgradable ==
    /\ api_log = <<>>
    /\ api_log' = <<[call |-> "ws_is_upgradable",
                     ret |-> ws_is_upgradable(api_headers)]>>
    /\ UNCHANGED <<api_headers, api_ws, api_out, api_fclose>>
    /\ UNCHANGED <<codecVars, wsVars, pathVars, httpVars, ioVars, hdrVars, serverVars, htVars>>

\* ws_upgrade(in, out, headers, uri, masked_client)
ApiUpgrade ==
    /\ ~ApiCalled("ws_upgrade")
    /\ \E st \in ApiStreams, masked_client \in BOOLEAN :
          LET up == ws_upgrade(st[1], st[2], api_headers, masked_client)
          IN  /\ api_ws' = up.ws
              /\ api_out' = up.out
              /\ api_log' = Append(api_log, [call |-> "ws_upgrade",
                                             f_in |-> st[1], f_out |-> st[2],
                                             ret |-> up.ws # NoSession])
    /\ UNCHANGED <<api_headers, api_fclose>>
    /\ UNCHANGED <<codecVars, wsVars, pathVars, httpVars, ioVars, hdrVars, serverVars, htVars>>

ApiLive == ApiCalled("ws_upgrade") /\ api_ws # NoSession /\ ~api_ws.freed

\* what a call of ws_close or ws_free leaves in the log
ApiCloseEntry(call, code, c) ==
    [call |-> call, code |-> code, was_open |-> ws_is_open(api_ws),
     is_open |-> ws_is_open(c.ws),
     out |-> IF c.out = <<>> THEN <<>> ELSE <<Frame(c.out), Flush>>,
     fclose |-> c.fclose]

\* ws_close(ws, code)
ApiClose(code) ==
    /\ ApiLive
    /\ Cardinality({k \in 1..Len(api_log) : api_log[k].call = "ws_close"}) < MaxCalls
    /\ LET c == ws_close(api_ws, code)
           entry == ApiCloseEntry("ws_close", code, c)
       IN  /\ api_ws' = c.ws
           /\ api_out' = api_out \o entry.out
           /\ api_fclose' = api_fclose \o c.fclose
           /\ api_log' = Append(api_log, entry)
    /\ UNCHANGED api_headers
    /\ UNCHANGED <<codecVars, wsVars, pathVars, httpVars, ioVars, hdrVars, serverVars, htVars>>

\* ws_free(ws)
ApiFree ==
    /\ ApiLive
    /\ LET c == ws_free(api_ws)
           entry == ApiCloseEntry("ws_free", WS_STATUS_GOING_AWAY, c)
       IN  /\ api_ws' = [c.ws EXCEPT !.freed = TRUE]
           /\ api_out' = api_out \o entry.out
           /\ api_fclose' = api_fclose \o c.fclose
           /\ api_log' = Append(api_log, entry)
    /\ UNCHANGED api_headers
    /\ UNCHANGED <<codecVars, wsVars, pathVars, httpVars, ioVars, hdrVars, serverVars, htVars>>

ApiNext ==
    \/ ApiIsUpgradable
    \/ ApiUpgrade
    \/ \E code \in {WS_STATUS_NORMAL, WS_STATUS_GOING_AWAY,
                    WS_STATUS_PROTOCOL_ERROR} : ApiClose(code)
    \/ ApiFree

SpecApi == ApiInit /\ [][ApiNext]_vars

\* ---- claims about the interface
\* the value of a header in the table, <<>> when the table has no such name
HeaderValue(name) ==
    IF name \in DOMAIN api_headers.tab THEN api_headers.tab[name] ELSE <<>>
UpgradeIsWebsocket == sz_to_lower(HeaderValue(H_UPGRADE)) = WS_UPGRADE

\* C15: ws_is_upgradable returns true if and only if the headers have an
\* 'upgrade' header whose value is 'websocket' in any mix of cases; whether
\* a 'connection' header is there, and what it says, makes no difference (a
\* set with connection: upgrade and no upgrade header is not upgradable).
C15_Upgradable ==
    \A k \in 1..Len(api_log) :
        api_log[k].call = "ws_is_upgradable" =>
            (api_log[k].ret <=> UpgradeIsWebsocket)

\* upgradable although the connection header is not 'upgrade'
C15_Witness ==
    /\ api_log # <<>> /\ api_log[1].call = "ws_is_upgradable"
    /\ api_log[1].ret
    /\ HeaderValue(H_CONNECTION) # <<>>
    /\ sz_to_lower(HeaderValue(H_CONNECTION)) # H_UPGRADE
    /\ HeaderValue(H_UPGRADE) # WS_UPGRADE

\* an unmasked PING frame with fin set and no payload: 0x89 0x00
PingBytes == <<137, 0>>
IsPing(item) == item.w = "frame" /\ item.bytes[1] % 16 = OC_PING

\* C16: once ws_upgrade has been called, either the upgrade header is
\* 'websocket' (in any case) and sec-websocket-key is present, and then a
\* session exists and the output begins with the 101 Switching Protocols
\* status line, connection: upgrade, upgrade: websocket, the
\* sec-websocket-accept header of the key, the empty line and one PING frame
\* 0x89 0x00, with no other PING anywhere on the output; or there is no
\* session and nothing at all has been written.  The session has read no
\* frame by then: ws_upgrade does not read.
C16_UpgradeOutput ==
    ApiCalled("ws_upgrade") =>
        IF UpgradeIsWebsocket /\ HeaderValue(H_SEC_WEBSOCKET_KEY) # <<>>
        THEN /\ api_ws # NoSession
             /\ Len(Wire(api_out)) >= 6
             /\ SubSeq(Wire(api_out), 1, 6) =
                  << StatusLine(101, "Switching Protocols"),
                     HeaderLine(H_CONNECTION, H_UPGRADE),
                     HeaderLine(H_UPGRADE, WS_UPGRADE),
                     HeaderLine(H_SEC_WEBSOCKET_ACCEPT,
                                ws_accept(HeaderValue(H_SEC_WEBSOCKET_KEY))),
                     EndOfHeaders,
                     [w |-> "frame", bytes |-> PingBytes] >>
             /\ \A k \in 7..Len(Wire(api_out)) : ~IsPing(Wire(api_out)[k])
             /\ (~ApiCalled("ws_close") /\ ~ApiCalled("ws_free")) =>
                    Len(Wire(api_out)) = 6
        ELSE /\ api_ws = NoSession
             /\ api_out = <<>>

\* a session right after its upgrade
C16_Witness ==
    /\ api_log # <<>> /\ api_log[Len(api_log)].call = "ws_upgrade"
    /\ api_log[Len(api_log)].ret
    /\ Len(Wire(api_out)) = 6 /\ Wire(api_out)[6].bytes = PingBytes
    /\ ws_is_open(api_ws)

\* the calls of ws_close and ws_free so far, oldest first
Closes == SelectSeq(api_log, LAMBDA e : e.call \in {"ws_close", "ws_free"})
\* the frames written after those of ws_upgrade
FramesAfterUpgrade == SubSeq(Wire(api_out), 7, Len(Wire(api_out)))
FcloseCount(stream) ==
    Cardinality({k \in 1..Len(api_fclose) : api_fclose[k] = stream})
\* the streams ws_upgrade was given
SessionStreams ==
    UNION { {api_log[k].f_in, api_log[k].f_out} :
            k \in {j \in 1..Len(api_log) : api_log[j].call = "ws_upgrade"} }

\* C17: on a session, before any ws_close or ws_free, ws_is_open is true and
\* no stream has been closed.  After one or more such calls, exactly one
\* CLOSE frame has been written, 0x88 0x02 and the status of the first call
\* in big-endian order (the code given to ws_close, 1001 for ws_free); every
\* stream of the session has been passed to fclose exactly once, a stream
\* that is both reader and writer once in all; the first call found the
\* session open and left it closed; and every later call wrote nothing and
\* closed nothing.
C17_CloseOnce ==
    (ApiCalled("ws_upgrade") /\ api_ws # NoSession) =>
        IF Closes = <<>>
        THEN /\ ws_is_open(api_ws)
             /\ api_fclose = <<>>
             /\ FramesAfterUpgrade = <<>>
        ELSE /\ FramesAfterUpgrade =
                  << [w |-> "frame",
                      bytes |-> <<128 + OC_CLOSE, 2,
                                  Closes[1].code \div 256,
                                  Closes[1].code % 256>>] >>
             /\ \A st \in SessionStreams : FcloseCount(st) = 1
             /\ Len(api_fclose) = Cardinality(SessionStreams)
             /\ Closes[1].was_open /\ ~Closes[1].is_open
             /\ Wire(Closes[1].out) = FramesAfterUpgrade
             /\ \A k \in 2..Len(Closes) :
                   /\ ~Closes[k].was_open /\ ~Closes[k].is_open
                   /\ Closes[k].out = <<>>
                   /\ Closes[k].fclose = <<>>
             /\ ~ws_is_open(api_ws)

\* ws_close(ws, 1002), ws_close(ws, 1000) and ws_free(ws) on a session whose
\* reader and writer are one stream
C17_Witness ==
    /\ Len(Closes) = 3
    /\ Closes[1].call = "ws_close" /\ Closes[1].code = WS_STATUS_PROTOCOL_ERROR
    /\ Closes[2].call = "ws_close" /\ Closes[2].code = WS_STATUS_NORMAL
    /\ Closes[3].call = "ws_free"
    /\ api_fclose = <<"io">>
    /\ FramesAfterUpgrade[1].bytes = <<136, 2, 3, 234>>

(***************************************************************************)
(* SpecLine: one call of io_read_line_crlf on a descriptor that delivers a  *)
(* stream of bytes and then the end of the stream.  Each read(2) of the     *)
(* loop is a step.                                                          *)
(***************************************************************************)
\* MAX_HTTP_REQ and MAX_HTTP_HEADER are 8192 in http.h; the model keeps the
\* two buffers of the handler and makes them short
MAX_HTTP_REQ    == 4
MAX_HTTP_HEADER == 4
\* the longest stream, the largest buffer_len, the number of interrupts
MaxStream    == 6
MaxBufferLen == MAX_HTTP_REQ + 2
MaxEintr     == 1

CR == "\r"
LF == "\n"
StreamBytes == {"a", CR, LF}
Streams ==
    UNION {[1..n -> StreamBytes] : n \in 0..MaxStream}

\* io_read_line_crlf: eol, with a lone CR taken for the end of the line
eol_cr(prev, ch) == prev = CR
\* io_read_line_crlf: eol = (ch_prev=='\r' && ch=='\n')
eol_crlf(prev, ch) == prev = CR /\ ch = LF

LineInit ==
    /\ \E s \in Streams : fd = [stream |-> s, pos |-> 0]
    /\ buffer_len \in 0..MaxBufferLen
    /\ buffer = <<>> /\ line_len = 0 /\ ch_prev = NUL
    /\ io_pc = "call" /\ io_ret = NotCalled /\ io_errno = "none"
    /\ eintr = 0 /\ io_calls = 1
    /\ CodecIdle /\ WsIdle /\ PathIdle /\ HttpIdle /\ ApiIdle /\ HdrIdle /\ ServerIdle /\ HtIdle

LineOther == <<io_calls, codecVars, wsVars, pathVars, httpVars, apiVars, hdrVars, serverVars, htVars>>

\* if(!buffer || buffer_len < 1) { errno = EINVAL; return -1; }
ReadLineCall ==
    /\ io_pc = "call"
    /\ IF buffer_len < 1
         THEN io_pc' = "done" /\ io_ret' = -1 /\ io_errno' = "EINVAL"
         ELSE io_pc' = "read" /\ UNCHANGED <<io_ret, io_errno>>
    /\ UNCHANGED <<fd, buffer, buffer_len, line_len, ch_prev, eintr, LineOther>>

\* a reader that takes the byte after the LF as well when it returns a line
ReadLineByteAhead ==
    /\ io_pc = "read" /\ fd.pos < Len(fd.stream)
    /\ LET ch == fd.stream[fd.pos + 1]
       IN  IF line_len >= buffer_len - 1
             THEN /\ fd' = [fd EXCEPT !.pos = @ + 1]
                  /\ io_pc' = "done" /\ io_ret' = -1 /\ io_errno' = "EIO"
                  /\ UNCHANGED <<buffer, line_len, ch_prev>>
             ELSE IF eol_crlf(ch_prev, ch)
             THEN /\ fd' = [fd EXCEPT !.pos = IF @ + 2 <= Len(fd.stream)
                                               THEN @ + 2 ELSE @ + 1]
                  /\ buffer' = [buffer EXCEPT ![line_len] = NUL]
                  /\ io_pc' = "done" /\ io_ret' = line_len - 1
                  /\ UNCHANGED <<line_len, ch_prev, io_errno>>
             ELSE /\ fd' = [fd EXCEPT !.pos = @ + 1]
                  /\ buffer' = Append(buffer, ch)
                  /\ line_len' = line_len + 1
                  /\ ch_prev' = ch
                  /\ UNCHANGED <<io_pc, io_ret, io_errno>>
    /\ UNCHANGED <<buffer_len, eintr, LineOther>>

\* read(fd, &ch, 1) returns 1
ReadLineByte ==
    /\ io_pc = "read" /\ fd.pos < Len(fd.stream)
    /\ LET ch == fd.stream[fd.pos + 1]
       IN  /\ fd' = [fd EXCEPT !.pos = @ + 1]
           /\ IF line_len >= buffer_len - 1
                THEN \* too long
                     /\ io_pc' = "done" /\ io_ret' = -1 /\ io_errno' = "EIO"
                     /\ UNCHANGED <<buffer, line_len, ch_prev>>
                ELSE IF eol_crlf(ch_prev, ch)
                THEN \* *(pch_line-1) = 0; return line_len-1;
                     /\ buffer' = [buffer EXCEPT ![line_len] = NUL]
                     /\ io_pc' = "done" /\ io_ret' = line_len - 1
                     /\ UNCHANGED <<line_len, ch_prev, io_errno>>
                ELSE /\ buffer' = Append(buffer, ch)
                     /\ line_len' = line_len + 1
                     /\ ch_prev' = ch
                     /\ UNCHANGED <<io_pc, io_ret, io_errno>>
    /\ UNCHANGED <<buffer_len, eintr, LineOther>>

\* read returns 0: the stream has ended
ReadLineEof ==
    /\ io_pc = "read" /\ fd.pos = Len(fd.stream)
    /\ io_pc' = "done" /\ io_ret' = -1 /\ io_errno' = "EIO"
    /\ UNCHANGED <<fd, buffer, buffer_len, line_len, ch_prev, eintr, LineOther>>

\* read returns -1 with errno EINTR: the loop goes round again
ReadLineInterrupted ==
    /\ io_pc = "read" /\ eintr < MaxEintr
    /\ eintr' = eintr + 1
    /\ UNCHANGED <<fd, buffer, buffer_len, line_len, ch_prev, io_pc, io_ret,
                   io_errno, LineOther>>

\* read returns -1 with another errno
ReadLineError ==
    /\ io_pc = "read"
    /\ io_pc' = "done" /\ io_ret' = -1 /\ io_errno' = "ECONNRESET"
    /\ UNCHANGED <<fd, buffer, buffer_len, line_len, ch_prev, eintr, LineOther>>

LineNext ==
    \/ ReadLineCall \/ ReadLineByte \/ ReadLineEof
    \/ ReadLineInterrupted \/ ReadLineError

SpecLine == LineInit /\ [][LineNext]_vars

\* the position of the first CR LF pair of the stream, 0 when it has none
FirstCrlf ==
    LET at == {k \in 1..(Len(fd.stream) - 1) :
                  fd.stream[k] = CR /\ fd.stream[k + 1] = LF}
    IN  IF at = {} THEN 0 ELSE CHOOSE k \in at : \A j \in at : k <= j
\* the number of bytes before that pair
LineL == FirstCrlf - 1
\* the call has returned, and no read failed
LineReturned ==
    io_pc = "done" /\ buffer_len >= 1 /\ io_errno # "ECONNRESET"

\* C23: when the first CR LF pair of the stream lies within the buffer's
\* capacity (the pair and the bytes before it fit in the buffer_len - 1
\* bytes that precede the terminator), io_read_line_crlf returns the
\* number L of bytes before the pair, the buffer holds those L bytes and
\* then NUL, and exactly the line and its CR LF were taken from the stream,
\* however many reads were interrupted; a CR or an LF on its own does not
\* end the line, an empty line gives 0, and a stream that ends before any
\* CR LF gives -1.
C23_ReadLine ==
    LineReturned =>
        /\ (FirstCrlf # 0 /\ LineL + 2 <= buffer_len - 1) =>
              /\ io_ret = LineL
              /\ buffer = SubSeq(fd.stream, 1, LineL) \o <<NUL>>
              /\ fd.pos = LineL + 2
        /\ FirstCrlf = 0 => io_ret = -1
        /\ io_ret >= 0 => FirstCrlf # 0 /\ io_ret = LineL

\* LF, CR, CR, LF read into a buffer of 5 bytes, one read interrupted
C23_Witness ==
    /\ LineReturned /\ eintr = 1
    /\ fd.stream = <<LF, CR, CR, LF>> /\ buffer_len = 5
    /\ io_ret = 2 /\ buffer = <<LF, CR, NUL>>

\* the buffer_len that http_client_connect and parse_headers pass
HandlerBufferLens == {MAX_HTTP_REQ + 1, MAX_HTTP_HEADER}

\* C24: for a stream that holds a line of L bytes ended by CR LF,
\* io_read_line_crlf returns L whenever L + 1 <= buffer_len, and fails only
\* when the line is longer than that; with the buffers of the handler
\* every request line and header line of up to MAX_HTTP_REQ bytes is read,
\* and one is refused only when it is longer.
C24_LineLength ==
    (LineReturned /\ FirstCrlf # 0) =>
        /\ LineL + 1 <= buffer_len => io_ret = LineL
        /\ io_ret < 0 => LineL + 1 > buffer_len
        /\ buffer_len \in HandlerBufferLens =>
              /\ LineL <= MAX_HTTP_REQ => io_ret = LineL
              /\ io_ret < 0 => LineL > MAX_HTTP_REQ

(***************************************************************************)
(* SpecHeaders: parse_headers on a block of header lines as the line        *)
(* reader delivers them (without their CR LF), one line a step, and then    *)
(* lookups in the table with ht_get.                                        *)
(***************************************************************************)
\* the number of lines of a block
MaxLines == 3

\* strtok(3) on a string that is not NULL: the first token and what follows
\* its delimiter; tok = <<>> is NULL
strtok(sz, delim) ==
    LET toks == {k \in 1..Len(sz) : sz[k] \notin delim}
        start == CHOOSE k \in toks : \A j \in toks : k <= j
        ends == {k \in 1..Len(sz) : k > start /\ sz[k] \in delim}
        end == IF ends = {} THEN Len(sz) + 1
               ELSE CHOOSE k \in ends : \A j \in ends : k <= j
    IN  IF toks = {} THEN [tok |-> <<>>, rest |-> <<>>]
        ELSE [tok |-> SubSeq(sz, start, end - 1),
              rest |-> SubSeq(sz, end + 1, Len(sz))]

\* parse_headers: name = strtok(header,":"); val = strtok(NULL,"\n\r")
strtok_header(header) ==
    LET name == strtok(header, {":"})
        val  == strtok(name.rest, {"\n", "\r"})
    IN  Hdr(name.tok, val.tok)

HeaderLines ==
    { <<"H", "o", "s", "t", ":", " ", "a">>,
      <<"H", "O", "S", "T", ":", "b">>,
      <<"N", "a", "m", "e", ":">>,
      <<"N", "a", "m", "e", ":", " ">>,
      <<" ", "f", ":", "x">>,
      <<"\t", "g">>,
      <<"n", "o", "c", "o", "l", "o", "n">>,
      <<":", "k", ":", "v">>,
      <<"a", " ", "b", ":", "c">>,
      <<"x", ":", ":", "y">> }
HeaderBlocks ==
    UNION {[1..n -> HeaderLines] : n \in 0..MaxLines}
\* the names looked up
LookupNames ==
    { <<"H", "o", "s", "t">>, <<"h", "o", "s", "t">>, <<"N", "A", "M", "E">>,
      <<"x">>, <<"K">>, <<"z">> }

\* toupper in the C locale
toupper(c) ==
    IF \E k \in 1..26 : LowerCase[k] = c
      THEN UpperCase[CHOOSE k \in 1..26 : LowerCase[k] = c] ELSE c
sz_to_upper(sz) == [k \in 1..Len(sz) |-> toupper(sz[k])]

HeadersInit ==
    /\ \E b \in HeaderBlocks, e \in {"empty line", "failure"} :
          hdr_in = [lines |-> b, end |-> e, pos |-> 0]
    /\ hdr_tab = [null |-> FALSE, tab |-> ht_create]
    /\ hdr_pc = "parse" /\ hdr_got = NoLookup
    /\ CodecIdle /\ WsIdle /\ PathIdle /\ HttpIdle /\ ApiIdle /\ IoIdle /\ ServerIdle /\ HtIdle

HeadersOther == <<codecVars, wsVars, pathVars, httpVars, apiVars, ioVars, serverVars, htVars>>

\* io_read_line_crlf returns h_len > 0: one turn of the loop
ParseHeaderLine ==
    /\ hdr_pc = "parse" /\ hdr_in.pos < Len(hdr_in.lines)
    /\ LET header == hdr_in.lines[hdr_in.pos + 1]
       IN  hdr_tab' = [hdr_tab EXCEPT
                          !.tab = ht_put_lines(@, <<strtok_header(header)>>)]
    /\ hdr_in' = [hdr_in EXCEPT !.pos = @ + 1]
    /\ UNCHANGED <<hdr_pc, hdr_got, HeadersOther>>

\* io_read_line_crlf returns 0 on the empty line, or -1
ParseHeadersEnd ==
    /\ hdr_pc = "parse" /\ hdr_in.pos = Len(hdr_in.lines)
    /\ hdr_tab' = IF hdr_in.end = "failure"
                    THEN [null |-> TRUE, tab |-> ht_create] ELSE hdr_tab
    /\ hdr_pc' = "parsed"
    /\ UNCHANGED <<hdr_in, hdr_got, HeadersOther>>

\* ht_get on the table with a name, with the name in lower case and with
\* the name in upper case
HeaderLookup ==
    /\ hdr_pc = "parsed" /\ ~hdr_tab.null
    /\ \E H \in LookupNames :
          hdr_got' = [name |-> H,
                      val |-> ht_get(hdr_tab, H),
                      lower |-> ht_get(hdr_tab, sz_to_lower(H)),
                      upper |-> ht_get(hdr_tab, sz_to_upper(H))]
    /\ UNCHANGED <<hdr_in, hdr_tab, hdr_pc, HeadersOther>>

HeadersNext == ParseHeaderLine \/ ParseHeadersEnd \/ HeaderLookup

SpecHeaders == HeadersInit /\ [][HeadersNext]_vars

\* parse_headers has returned a table
Parsed == hdr_pc = "parsed" /\ ~hdr_tab.null
ht_size(headers) == Cardinality(DOMAIN headers.tab)
HasColon(line) == \E k \in 1..Len(line) : line[k] = ":"
Folded(line) == line # <<>> /\ line[1] \in {" ", "\t"}

\* C25: for a header block that ends in an empty line, the size of the
\* table is the number of the lines that are not empty, hold a colon and
\* do not start with SP or HT, the lines Name: with nothing after the
\* colon and the lines that repeat a name included.
C25_TableSize ==
    Parsed =>
        ht_size(hdr_tab) =
            Cardinality({k \in 1..Len(hdr_in.lines) :
                            /\ hdr_in.lines[k] # <<>>
                            /\ HasColon(hdr_in.lines[k])
                            /\ ~Folded(hdr_in.lines[k])})

\* C26: a lookup does not depend on the case of the name: ht_get with H,
\* with H in lower case and with H in upper case return the same.
C26_LookupAnyCase ==
    (Parsed /\ hdr_got # NoLookup) =>
        /\ hdr_got.val = hdr_got.lower
        /\ hdr_got.val = hdr_got.upper

\* the characters '!' to '~' that are letters, digits or the punctuation of
\* header lines
VisibleAscii ==
    {UpperCase[k] : k \in 1..26} \cup {LowerCase[k] : k \in 1..26}
    \cup {Digits[k] : k \in 1..10}
    \cup {"!", "#", "$", "%", "&", "+", ",", "-", ".", "/", ":", ";", "<",
          "=", ">", "?", "@", "^", "_", "~"}
NotFolded(lines) == SelectSeq(lines, LAMBDA l : ~Folded(l))

\* C27: after parsing, every key of the table is made of visible ASCII
\* characters only, is in lower case and holds no colon; a line that
\* starts with SP or HT, with or without a colon, gives no key: the table
\* is the one the block without those lines gives.
C27_Keys ==
    Parsed =>
        /\ \A key \in DOMAIN hdr_tab.tab :
              /\ \A k \in 1..Len(key) : key[k] \in VisibleAscii \ {":"}
              /\ key = sz_to_lower(key)
        /\ LET kept == NotFolded(hdr_in.lines)
           IN  DOMAIN hdr_tab.tab =
                 DOMAIN ht_put_lines(ht_create,
                          [k \in 1..Len(kept) |-> strtok_header(kept[k])])

(***************************************************************************)
(* SpecServer: main and server of server-main.c.  The listener parses its   *)
(* arguments, starts up and runs the accept loop; a client connects, sends  *)
(* messages or stays silent, and closes; in fork mode a child process       *)
(* serves the connection.  SIGINT and SIGTERM are delivered to the listener *)
(* (while it listens) and to the child at any point.                        *)
(***************************************************************************)
\* the number of arguments, of connections, of messages on a connection
MaxArgs  == 3
MaxConns == 2
MaxMsgs  == 2

ARG_DEBUG        == <<"-", "-", "d", "e", "b", "u", "g">>
ARG_NO_FORK      == <<"-", "-", "n", "o", "-", "f", "o", "r", "k">>
ARG_STATIC_FILES ==
    <<"-", "-", "s", "t", "a", "t", "i", "c", "-", "f", "i", "l", "e", "s">>
ArgWords ==
    { ARG_DEBUG, ARG_NO_FORK, ARG_STATIC_FILES, <<"-", "-", "x">>,
      <<"/", "w">>, <<"/", "w", "/", "i">>,
      <<"8", "0", "8", "0">>, <<"0">>, <<"1", ".", "2", ".", "3", ".", "4">> }
Argvs == UNION {[1..n -> ArgWords] : n \in 0..MaxArgs}

\* sz_starts_with(arg,"--")
sz_starts_with_dashes(arg) == Len(arg) >= 2 /\ arg[1] = "-" /\ arg[2] = "-"
\* net_atoipv4(sz) # INVALID_ADDR
net_atoipv4_valid(sz) ==
    /\ Len(sz) <= 15
    /\ LET p == Tokens(sz, ".")
       IN  /\ Len(p) >= 4
           /\ \E k \in 1..4 : atoi(p[k]) % 256 # 255

ArgError(why) == [ret |-> 1, error |-> why, use_fork |-> TRUE]
\* main: the loop over the arguments from argv[iarg] on, and what follows
\* it; ret is what main returns before it calls server (0: it calls server)
RECURSIVE main_args(_, _, _)
main_args(av, iarg, st) ==
    IF iarg > Len(av)
    THEN IF st.port <= 0 THEN ArgError("usage")
         ELSE [ret |-> 0, error |-> "none", use_fork |-> st.use_fork]
    ELSE LET arg == av[iarg]
         IN  IF sz_starts_with_dashes(arg)
             THEN IF arg = ARG_DEBUG THEN main_args(av, iarg + 1, st)
                  ELSE IF arg = ARG_NO_FORK
                    THEN main_args(av, iarg + 1, [st EXCEPT !.use_fork = FALSE])
                  ELSE IF arg = ARG_STATIC_FILES
                    THEN IF iarg + 1 > Len(av)
                           THEN ArgError("Argument missing")
                         ELSE IF ~io_is_dir(av[iarg + 1])
                           THEN ArgError("Must be a directory")
                         ELSE main_args(av, iarg + 2, st)
                  ELSE ArgError("Unrecognized command line option")
             ELSE IF st.port = 0
             THEN IF atoi(arg) <= 0 THEN ArgError("Invalid port number")
                  ELSE main_args(av, iarg + 1, [st EXCEPT !.port = atoi(arg)])
             ELSE IF ~st.addr
             THEN IF ~net_atoipv4_valid(arg) THEN ArgError("Invalid ip address")
                  ELSE main_args(av, iarg + 1, [st EXCEPT !.addr = TRUE])
             ELSE ArgError("Unexpected command line argument")
main(av) == main_args(av, 1, [use_fork |-> TRUE, port |-> 0, addr |-> FALSE])

\* the calls of server that can fail before the loop
StartupSteps ==
    {"http_init", "socket", "setsockopt", "ioctl", "bind", "listen"}
Signals == {"SIGINT", "SIGTERM"}

ServerInit ==
    /\ argv \in Argvs
    /\ srv_pc = "main" /\ use_fork = TRUE /\ shutdown_server = 0
    /\ fd_server = "none" /\ exit_code = NotCalled /\ failed = "none"
    /\ l_sig = "none" /\ client = NoClient /\ worker = NoWorker /\ nconn = 0
    /\ CodecIdle /\ WsIdle /\ PathIdle /\ HttpIdle /\ ApiIdle /\ IoIdle /\ HdrIdle /\ HtIdle

ServerOther == <<codecVars, wsVars, pathVars, httpVars, apiVars, ioVars, hdrVars, htVars>>

\* main up to the call of server
Main ==
    /\ srv_pc = "main"
    /\ IF main(argv).ret = 1
         THEN srv_pc' = "exited" /\ exit_code' = 1 /\ UNCHANGED use_fork
         ELSE srv_pc' = "startup" /\ use_fork' = main(argv).use_fork
              /\ UNCHANGED exit_code
    /\ UNCHANGED <<argv, shutdown_server, fd_server, failed, l_sig, client,
                   worker, nconn, ServerOther>>

\* server from http_init to listen.  When a call fails server returns 1;
\* main drops that value and ends, and the exit status of a main that ends
\* without a return is 0.
ServerStartup ==
    /\ srv_pc = "startup"
    /\ \E f \in StartupSteps \cup {"none"} :
          /\ failed' = f
          /\ IF f = "none"
               THEN /\ srv_pc' = "test" /\ fd_server' = "listening"
                    /\ UNCHANGED exit_code
               ELSE /\ srv_pc' = "exited" /\ exit_code' = 0
                    /\ fd_server' = IF f \in {"http_init", "socket"}
                                      THEN "none" ELSE "closed"
    /\ UNCHANGED <<argv, use_fork, shutdown_server, l_sig, client, worker,
                   nconn, ServerOther>>

\* sigint_handler runs in the listener: a signal is delivered to the
\* process while it listens
ListenerSignal ==
    /\ srv_pc # "exited" /\ fd_server = "listening" /\ l_sig = "none"
    /\ \E sig \in Signals : l_sig' = sig
    /\ shutdown_server' = 1
    /\ UNCHANGED <<argv, srv_pc, use_fork, fd_server, exit_code, failed,
                   client, worker, nconn, ServerOther>>

\* while(!shutdown_server) and do_server_maintenance
LoopTest ==
    /\ srv_pc = "test"
    /\ srv_pc' = IF shutdown_server = 1 THEN "shutdown" ELSE "select"
    /\ worker' = IF shutdown_server = 0 /\ worker.pc = "exited"
                   THEN NoWorker ELSE worker
    /\ UNCHANGED <<argv, use_fork, shutdown_server, fd_server, exit_code,
                   failed, l_sig, client, nconn, ServerOther>>

\* select returns: a connection is pending, or the second has passed, or a
\* signal interrupted it
Select ==
    /\ srv_pc = "select"
    /\ srv_pc' = IF client.state = "pending" THEN "accept" ELSE "test"
    /\ UNCHANGED <<argv, use_fork, shutdown_server, fd_server, exit_code,
                   failed, l_sig, client, worker, nconn, ServerOther>>

\* accept, and ioctl(fd_client,FIONBIO)
Accept ==
    /\ srv_pc = "accept"
    /\ \E r \in {"accept fails", "ioctl fails", "ok"} :
          IF r = "accept fails"
          THEN /\ shutdown_server' = 1 /\ srv_pc' = "test"
               /\ client' = NoClient
               /\ UNCHANGED <<exit_code, failed, fd_server>>
          ELSE IF r = "ioctl fails"
          THEN \* return 1, dropped by main
               /\ srv_pc' = "exited" /\ exit_code' = 0
               /\ failed' = "ioctl(fd_client)"
               /\ fd_server' = "closed"
               /\ client' = NoClient
               /\ UNCHANGED shutdown_server
          ELSE /\ srv_pc' = IF use_fork THEN "fork" ELSE "connect"
               /\ client' = [client EXCEPT !.state = "accepted", !.l_fd = TRUE]
               /\ UNCHANGED <<shutdown_server, exit_code, failed, fd_server>>
    /\ UNCHANGED <<argv, use_fork, l_sig, worker, nconn, ServerOther>>

\* fork, and the parent's side of it: close(fd_client)
Fork ==
    /\ srv_pc = "fork"
    /\ \E ok \in BOOLEAN :
          IF ok
          THEN /\ worker' = [pc |-> "forked",
                             shutdown_server |-> shutdown_server,
                             s_fd_client |-> "0", fd_open |-> TRUE,
                             sig |-> "none", sig_pc |-> "none",
                             served |-> 0]
               /\ client' = [client EXCEPT !.l_fd = FALSE]
          ELSE /\ client' = NoClient
               /\ UNCHANGED worker
    /\ srv_pc' = "test"
    /\ UNCHANGED <<argv, use_fork, shutdown_server, fd_server, exit_code,
                   failed, l_sig, nconn, ServerOther>>

\* http_client_connect blocked in a read of the connection: the read can
\* return when the descriptor was closed, when a message has come, or when
\* the client has closed
CanRead(fd_open) ==
    ~fd_open \/ client.msgs > 0 \/ client.closed
\* the handler returns when the read failed, at the end of the stream, and
\* after the response to a request that is no upgrade
Returns(fd_open) ==
    ~fd_open \/ client.msgs = 0 \/ client.kind = "http"
\* a message is read and answered
Serves(fd_open) == fd_open /\ client.msgs > 0

\* --no-fork: http_client_connect called by the listener
ListenerConnect ==
    /\ srv_pc = "connect" /\ CanRead(client.l_fd)
    /\ srv_pc' = IF Returns(client.l_fd) THEN "close" ELSE "connect"
    /\ client' = IF Serves(client.l_fd)
                   THEN [client EXCEPT !.msgs = @ - 1] ELSE client
    /\ UNCHANGED <<argv, use_fork, shutdown_server, fd_server, exit_code,
                   failed, l_sig, worker, nconn, ServerOther>>

\* --no-fork: close(fd_client)
ListenerClose ==
    /\ srv_pc = "close"
    /\ srv_pc' = "test" /\ client' = NoClient
    /\ UNCHANGED <<argv, use_fork, shutdown_server, fd_server, exit_code,
                   failed, l_sig, worker, nconn, ServerOther>>

\* shutdown(fd_server), close(fd_server), exit(0)
Shutdown ==
    /\ srv_pc = "shutdown"
    /\ srv_pc' = "exited" /\ fd_server' = "closed" /\ exit_code' = 0
    /\ UNCHANGED <<argv, use_fork, shutdown_server, failed, l_sig, client,
                   worker, nconn, ServerOther>>

ListenerVars == <<argv, srv_pc, use_fork, shutdown_server, fd_server,
                  exit_code, failed, l_sig>>

\* the child: setpgid, signal(SIGINT, sigint_handler_child)
WorkerSigint ==
    /\ worker.pc = "forked"
    /\ worker' = [worker EXCEPT !.pc = "sigint"]
    /\ UNCHANGED <<ListenerVars, client, nconn, ServerOther>>

\* the child: signal(SIGTERM, sigint_handler_child)
WorkerSigterm ==
    /\ worker.pc = "sigint"
    /\ worker' = [worker EXCEPT !.pc = "sigterm"]
    /\ UNCHANGED <<ListenerVars, client, nconn, ServerOther>>

\* the child: close(fd_server); _fd_client = fd_client
WorkerFdClient ==
    /\ worker.pc = "sigterm"
    /\ worker' = [worker EXCEPT !.pc = "connect", !.s_fd_client = "fd_client"]
    /\ UNCHANGED <<ListenerVars, client, nconn, ServerOther>>

\* the handler SIGINT or SIGTERM has in the child at this point
ChildHandler(sig) ==
    IF \/ worker.pc \in {"sigterm", "connect", "close"}
       \/ worker.pc = "sigint" /\ sig = "SIGINT"
      THEN "sigint_handler_child" ELSE "sigint_handler"
\* sigint_handler: shutdown_server = 1
sigint_handler_flag(w) == [w EXCEPT !.shutdown_server = 1]
\* sigint_handler_child: if(_fd_client) close(_fd_client); shutdown_server = 1
sigint_handler_child(w) ==
    [w EXCEPT !.shutdown_server = 1,
              !.fd_open = IF w.s_fd_client # "0" THEN FALSE ELSE @]

\* a signal is delivered to the child
WorkerSignal ==
    /\ worker.pc \notin {"none", "exited"} /\ worker.sig = "none"
    /\ \E sig \in Signals :
          LET w == [worker EXCEPT !.sig = sig, !.sig_pc = worker.pc]
          IN  worker' = IF ChildHandler(sig) = "sigint_handler_child"
                          THEN sigint_handler_child(w)
                          ELSE sigint_handler_flag(w)
    /\ UNCHANGED <<ListenerVars, client, nconn, ServerOther>>

\* the child: http_client_connect(fd_client,fd_client)
WorkerConnect ==
    /\ worker.pc = "connect" /\ CanRead(worker.fd_open)
    /\ worker' = [worker EXCEPT
                     !.pc = IF Returns(worker.fd_open) THEN "close" ELSE @,
                     !.served = IF Serves(worker.fd_open) THEN @ + 1 ELSE @]
    /\ client' = IF Serves(worker.fd_open)
                   THEN [client EXCEPT !.msgs = @ - 1] ELSE client
    /\ UNCHANGED <<ListenerVars, nconn, ServerOther>>

\* the child: close(fd_client), exit(0)
WorkerExit ==
    /\ worker.pc = "close"
    /\ worker' = [worker EXCEPT !.pc = "exited", !.fd_open = FALSE]
    /\ client' = NoClient
    /\ UNCHANGED <<ListenerVars, nconn, ServerOther>>

\* a client connects to the listening socket
ClientConnects ==
    /\ fd_server = "listening" /\ client.state = "none" /\ nconn < MaxConns
    /\ worker.pc \in {"none", "exited"}
    /\ \E kind \in {"http", "ws"} :
          client' = [NoClient EXCEPT !.state = "pending", !.kind = kind]
    /\ nconn' = nconn + 1
    /\ UNCHANGED <<ListenerVars, worker, ServerOther>>

\* the client sends a request or a frame
ClientSends ==
    /\ client.state # "none" /\ ~client.closed
    /\ client.msgs = 0 /\ client.sent < MaxMsgs
    /\ client' = [client EXCEPT !.msgs = 1, !.sent = @ + 1]
    /\ UNCHANGED <<ListenerVars, worker, nconn, ServerOther>>

\* the client closes its side
ClientCloses ==
    /\ client.state # "none" /\ ~client.closed
    /\ client' = [client EXCEPT !.closed = TRUE]
    /\ UNCHANGED <<ListenerVars, worker, nconn, ServerOther>>

ListenerNext ==
    \/ Main \/ ServerStartup \/ LoopTest \/ Select \/ Accept \/ Fork
    \/ ListenerConnect \/ ListenerClose \/ Shutdown
WorkerNext ==
    \/ WorkerSigint \/ WorkerSigterm \/ WorkerFdClient \/ WorkerConnect
    \/ WorkerExit
ClientNext == ClientConnects \/ ClientSends \/ ClientCloses
ServerNext ==
    \/ ListenerNext \/ WorkerNext \/ ClientNext
    \/ ListenerSignal \/ WorkerSignal

SpecServer == ServerInit /\ [][ServerNext]_vars

\* the processes of the server take their steps; nothing is assumed of the
\* client and of the signals
SpecServerLive ==
    ServerInit /\ [][ServerNext]_vars /\ WF_vars(ListenerNext)
    /\ WF_vars(WorkerNext)

\* the listener has left with status 0 and the listening socket is closed
ListenerExited0 ==
    srv_pc = "exited" /\ exit_code = 0 /\ fd_server = "closed"

\* C28: once SIGINT or SIGTERM has been delivered to the listener, in fork
\* mode and in --no-fork mode and whatever the client does, the listener
\* eventually sees the flag, closes the listening socket and exits with
\* status 0.
C28_ShutdownOnSignal == (l_sig # "none") ~> ListenerExited0

\* C29: a SIGTERM or SIGINT delivered to the child at any point after fork
\* makes it close the peer socket and exit: from the delivery on, the child
\* does not read and answer another message with the connection open.
C29_WorkerStops ==
    [][worker.sig # "none" =>
         ~(worker.fd_open /\ worker'.served > worker.served)]_vars

\* C30: the server process exits with status 0 only after an orderly
\* shutdown (the flag seen, the listening socket closed), and with status 1
\* on every argument error and on every failure of the start-up: sandbox
\* initialisation, socket, socket options, bind, listen.
C30_ExitCodes ==
    srv_pc = "exited" =>
        /\ exit_code = 0 =>
              /\ main(argv).ret = 0 /\ failed = "none"
              /\ shutdown_server = 1 /\ fd_server = "closed"
        /\ main(argv).ret = 1 => exit_code = 1
        /\ failed \in StartupSteps => exit_code = 1

\* the listener has started up: it is in the accept loop or beyond it
Started ==
    /\ main(argv).ret = 0 /\ failed \notin StartupSteps
    /\ srv_pc \notin {"main", "startup"}

\* C31: a failure that concerns one connection (accept fails, the accepted
\* socket cannot be configured, fork fails) closes that connection only:
\* as long as no shutdown signal has arrived, the flag stays clear, the
\* listening socket stays open and the listener stays in the accept loop.
C31_LoopKeepsRunning ==
    (Started /\ l_sig = "none") =>
        /\ shutdown_server = 0 /\ fd_server = "listening"
        /\ srv_pc \notin {"shutdown", "exited"}

\* the frame at the head of f_in makes the session write: the PONG reply to
\* a PING in _ws_read, or the echo of a message in dispatch_websocket
NextFrameWrites ==
    /\ pc = "wait" /\ f_in # <<>>
    /\ LET r == read_dataframe(f_in, ws.is_masked_client)
       IN  /\ r.df # NoFrame
           /\ LET s == ws_read_frame(ws, opcode_prev, r.df)
              IN  \/ s.out # <<>>
                  \/ s.ret /\ ws_wait(s.oc) \in {WS_MSG_TXT, WS_MSG_BIN}

\* the step reads a frame whose reply or echo cannot be written
WriteFails == NextFrameWrites /\ f_out_err /\ f_in' # f_in

\* C32: a failed frame write (the PONG reply to a PING, the echo of a
\* message) ends the session: wait() returns ERROR, the handler's return
\* code is -1 and the session is destroyed; no frame is read after it.
C32_WriteFailureEnds ==
    [][WriteFails =>
          /\ pc' = "done" /\ ret_code' = -1
          /\ ret_log'[Len(ret_log')].type = WS_ERROR
          /\ ~ws_is_open(ws')]_vars


\* P names a directory of the file system
IsDirectory(P) == \E k \in DOMAIN FS : PathOf(k) = P /\ FS[k].type = "dir"

\* the outcome the step must have when it is http_init(d)
InitOutcome(d) ==
    LET canon == realpath(d)
        root  == static_files_dir'
        e     == path_out'.errno
    IN  /\ canon.errno = "ENOENT" => http_init_ret' = -1 /\ e = "ENOENT"
        /\ canon.errno = "none" /\ canon.path = <<"/">> =>
               http_init_ret' = -1 /\ e = "EPERM"
        /\ (canon.errno = "ENOTDIR"
              \/ (canon.errno = "none" /\ ~IsDirectory(canon.path))) =>
               http_init_ret' = -1 /\ e = "ENOTDIR"
        /\ http_init_ret' \in {0, -1}
        /\ http_init_ret' = 0 =>
               /\ e = "none"
               /\ root = canon.path /\ CanonicalExisting(root)
               /\ root[1] = "/" /\ root # <<"/">> /\ root[Len(root)] # "/"
               /\ IsDirectory(root)
               /\ static_files_dir_len' = Len(root)

\* C33: http_init fails with ENOENT when the directory cannot be
\* canonicalized, with EPERM when the canonical path is "/" (also for
\* "/w/.."), with ENOTDIR when the canonical path is not a directory; when
\* it succeeds the stored root is a canonical absolute path that is not "/",
\* does not end in '/', names an existing directory, and the stored length
\* is the length of the root.
C33_InitOutcome ==
    [][\A d \in RawDirs : HttpInit(d) => InitOutcome(d)]_vars

C33_Witness ==
    /\ http_init_ret = 0
    /\ static_files_dir = <<"/", "e">> /\ static_files_dir_len = 2


(***************************************************************************)
(* SpecHt: a hashtable (ht.c) and callers that put keys and values into    *)
(* it, clear it and free it.  A key pointer is a block id with the string  *)
(* it points to; a value pointer is a block id, 0 for NULL.                *)
(***************************************************************************)
\* how many calls of ht_put a behaviour makes
MaxPuts == 3

HASH_MUL == 31

\* the keys put and looked up, and the codes of their characters; "a" and
\* "c" share a chain when nhash is 1 or 2
HtKeys == {<<"a">>, <<"b">>, <<"c">>}
CharCode == ("a" :> 97) @@ ("b" :> 98) @@ ("c" :> 99)

\* ht_hash_sz: h = HASH_MUL * h + *p over the characters (unsigned int; the
\* keys here are too short to wrap)
RECURSIVE ht_hash_from(_, _)
ht_hash_from(h, str) ==
    IF str = <<>> THEN h
    ELSE ht_hash_from(HASH_MUL * h + CharCode[Head(str)], Tail(str))
ht_hash_sz(str) == ht_hash_from(0, str)

\* the nhash arguments of ht_create: with 1 every key shares a chain, with
\* 2 "a" and "c" do, with 3 no two keys do (as with the default, which the
\* argument 0 stands for)
HtNhash == {1, 2, 3}
DefaultNhash == 1021

\* ht_create(nhash, NULL, free_key, free_val); free_key and free_val say
\* whether the function pointer is set
ht_create_table(nhash, free_key, free_val) ==
    LET n == IF nhash = 0 THEN DefaultNhash ELSE nhash
    IN  [size |-> 0, nhash |-> n, free_key |-> free_key, free_val |-> free_val,
         chains |-> [h \in 0..(n - 1) |-> <<>>]]

\* the walk of a chain with strcmp: the place of the first NVP whose key
\* equals sz, 0 if there is none
chain_find(chain, sz) ==
    IF \E j \in 1..Len(chain) : chain[j].key.sz = sz
    THEN CHOOSE j \in 1..Len(chain) :
             /\ chain[j].key.sz = sz
             /\ \A m \in 1..(j - 1) : chain[m].key.sz # sz
    ELSE 0

\* ht_put that counts every call in size
ht_put_counts_all(t, key, val) ==
    LET h  == ht_hash_sz(key.sz) % t.nhash
        ch == t.chains[h]
        j  == chain_find(ch, key.sz)
    IN  IF j # 0
        THEN [ht   |-> [t EXCEPT !.size = @ + 1, !.chains[h][j].val = val],
              free |-> IF t.free_val /\ ch[j].val # 0 THEN <<ch[j].val>> ELSE <<>>]
        ELSE [ht   |-> [t EXCEPT !.size = @ + 1,
                                 !.chains[h] = <<[key |-> key, val |-> val]>> \o @],
              free |-> <<>>]
\* ht_put: the table after the call and the blocks passed to free_val
ht_put(t, key, val) ==
    LET h  == ht_hash_sz(key.sz) % t.nhash
        ch == t.chains[h]
        j  == chain_find(ch, key.sz)
    IN  IF j # 0
        THEN [ht   |-> [t EXCEPT !.chains[h][j].val = val],
              free |-> IF t.free_val /\ ch[j].val # 0 THEN <<ch[j].val>> ELSE <<>>]
        ELSE [ht   |-> [t EXCEPT !.size = @ + 1,
                                 !.chains[h] = <<[key |-> key, val |-> val]>> \o @],
              free |-> <<>>]

\* the NVPs of the table
NvpAt(t) == UNION {{<<h, j>> : j \in 1..Len(t.chains[h])} : h \in DOMAIN t.chains}

\* ht_clear: the table after the call, and for a block how often the call
\* passes it to free_key or free_val
ht_clear(t) == [t EXCEPT !.size = 0, !.chains = [h \in 0..(t.nhash - 1) |-> <<>>]]
ht_clear_frees(t, N, id) ==
    Cardinality({n \in N : t.free_key /\ t.chains[n[1]][n[2]].key.id = id})
    + Cardinality({n \in N :
                      /\ t.free_val /\ t.chains[n[1]][n[2]].val # 0
                      /\ t.chains[n[1]][n[2]].val = id})

ht_contains(t, sz) == chain_find(t.chains[ht_hash_sz(sz) % t.nhash], sz) # 0

\* ht_get: the value pointer, 0 for NULL
ht_get_val(t, sz) ==
    LET ch == t.chains[ht_hash_sz(sz) % t.nhash]
        j  == chain_find(ch, sz)
    IN  IF j # 0 THEN ch[j].val ELSE 0

HtInit ==
    /\ \E nhash \in HtNhash, free_key \in BOOLEAN, free_val \in BOOLEAN :
           ht = ht_create_table(nhash, free_key, free_val)
    /\ ht_released = [id \in 1..(2 * MaxPuts) |-> 0]
    /\ ht_puts = <<>> /\ ht_cleared = 0 /\ ht_pc = "live"
    /\ CodecIdle /\ WsIdle /\ PathIdle /\ HttpIdle /\ ApiIdle /\ IoIdle /\ HdrIdle /\ ServerIdle

HtOther == <<codecVars, wsVars, pathVars, httpVars, apiVars, ioVars, hdrVars, serverVars>>

\* a caller puts a key it has allocated (strdup) with a value it has
\* allocated or with NULL
HtPut(sz, with_val) ==
    /\ ht_pc = "live" /\ Len(ht_puts) < MaxPuts
    /\ LET key == [id |-> 2 * Len(ht_puts) + 1, sz |-> sz]
           val == IF with_val THEN 2 * Len(ht_puts) + 2 ELSE 0
           r   == ht_put(ht, key, val)
       IN  /\ ht' = r.ht
           /\ ht_released' = [id \in DOMAIN ht_released |->
                                 ht_released[id]
                                 + Cardinality({n \in 1..Len(r.free) : r.free[n] = id})]
           /\ ht_puts' = Append(ht_puts, [key |-> key, val |-> val])
    /\ UNCHANGED <<ht_cleared, ht_pc, HtOther>>

HtClear ==
    /\ ht_pc = "live"
    /\ ht' = ht_clear(ht)
    /\ LET N == NvpAt(ht)
       IN  ht_released' = [id \in DOMAIN ht_released |->
                              ht_released[id] + ht_clear_frees(ht, N, id)]
    /\ ht_cleared' = Len(ht_puts)
    /\ UNCHANGED <<ht_puts, ht_pc, HtOther>>

\* ht_free: ht_clear(ht); free(ht)
HtFree ==
    /\ ht_pc = "live"
    /\ ht' = ht_clear(ht)
    /\ LET N == NvpAt(ht)
       IN  ht_released' = [id \in DOMAIN ht_released |->
                              ht_released[id] + ht_clear_frees(ht, N, id)]
    /\ ht_cleared' = Len(ht_puts)
    /\ ht_pc' = "freed"
    /\ UNCHANGED <<ht_puts, HtOther>>

HtNext ==
    \/ \E sz \in HtKeys, with_val \in BOOLEAN : HtPut(sz, with_val)
    \/ HtClear
    \/ HtFree

SpecHt == HtInit /\ [][HtNext]_vars

\* nothing is in the table: it was just cleared or freed
HtEmptied == ht_cleared = Len(ht_puts)

\* C34: the table owns every key and value passed to ht_put: once it has
\* been cleared or freed, each was released exactly once through the
\* function given to ht_create, also when a key equal to a stored one was
\* put; no block is ever released twice.
C34_ReleasedOnce ==
    /\ \A id \in DOMAIN ht_released : ht_released[id] <= 1
    /\ HtEmptied =>
           \A n \in 1..Len(ht_puts) :
               /\ ht.free_key => ht_released[ht_puts[n].key.id] = 1
               /\ ht.free_val /\ ht_puts[n].val # 0 =>
                      ht_released[ht_puts[n].val] = 1


\* the calls of ht_put since the last ht_clear, and the last of them for a key
PutsSinceClear == SubSeq(ht_puts, ht_cleared + 1, Len(ht_puts))
LastPut(sz) ==
    LET P == PutsSinceClear
    IN  P[CHOOSE n \in 1..Len(P) :
              /\ P[n].key.sz = sz
              /\ \A m \in (n + 1)..Len(P) : P[m].key.sz # sz]

\* C35: after any calls of ht_put and ht_clear, ht_size is the number of
\* distinct keys put since the last clear, ht_contains is true exactly of
\* those keys, and ht_get returns the value of the last put of the key (a
\* put of a stored key replaces the value and leaves the size; a key put
\* with NULL is contained and ht_get returns NULL); after ht_clear the size
\* is 0 and no key is contained.
C35_TableContents ==
    ht_pc = "live" =>
        LET P == PutsSinceClear
            K == {P[n].key.sz : n \in 1..Len(P)}
        IN  /\ ht.size = Cardinality(K)
            /\ \A sz \in HtKeys :
                   /\ ht_contains(ht, sz) <=> sz \in K
                   /\ ht_get_val(ht, sz) = IF sz \in K THEN LastPut(sz).val ELSE 0
            /\ HtEmptied => ht.size = 0 /\ \A sz \in HtKeys : ~ht_contains(ht, sz)

C35_Witness ==
    /\ ht_pc = "live" /\ ht_cleared = 1 /\ Len(ht_puts) = 3
    /\ ht_puts[1].key.sz = <<"c">>
    /\ ht_puts[2].key.sz = <<"a">> /\ ht_puts[2].val # 0
    /\ ht_puts[3].key.sz = <<"a">> /\ ht_puts[3].val = 0
    /\ ht.size = 1 /\ ht_contains(ht, <<"a">>) /\ ht_get_val(ht, <<"a">>) = 0
    /\ ~ht_contains(ht, <<"c">>)


(***************************************************************************)
(* SpecHead: the reads http_client_connect and parse_headers make on the   *)
(* connection before the request is dispatched: one call of                *)
(* io_read_line_crlf for the request line, then one for each header line   *)
(* until a call returns 0 (the empty line) or fails.  What the lines say   *)
(* is not looked at here: every line that is not empty is taken for a      *)
(* request line with its three tokens, and header lines are kept or        *)
(* skipped without a further read.                                         *)
(***************************************************************************)
\* how many header lines a client sends before the empty line
MaxHeadLines == 2

RequestLines == {<<"a">>, <<"a", "a">>, <<LF>>, <<"a", CR>>, <<"a", "a", "a">>}
HeadLines    == {<<"a">>, <<CR>>, <<LF>>, <<"a", "a">>}
\* what the client sends after the empty line: a body, a frame
AfterHead    == {<<>>, <<"a">>, <<CR, LF>>, <<LF, "a">>}

RECURSIVE HeadBlocks(_)
HeadBlocks(n) ==
    IF n = 0 THEN {<<>>}
    ELSE HeadBlocks(n - 1)
         \cup {b \o h \o <<CR, LF>> : b \in HeadBlocks(n - 1), h \in HeadLines}

\* the whole of what a client sends, or a part of it
HeadStreams ==
    UNION {{SubSeq(r \o <<CR, LF>> \o b \o <<CR, LF>> \o t, 1, n) :
               n \in 0..(Len(r) + Len(b) + Len(t) + 4)} :
           r \in RequestLines, b \in HeadBlocks(MaxHeadLines), t \in AfterHead}

HeadInit ==
    /\ \E s \in HeadStreams : fd = [stream |-> s, pos |-> 0]
    /\ buffer_len = MAX_HTTP_REQ + 1
    /\ buffer = <<>> /\ line_len = 0 /\ ch_prev = NUL
    /\ io_pc = "call" /\ io_ret = NotCalled /\ io_errno = "none"
    /\ eintr = 0 /\ io_calls = 1
    /\ CodecIdle /\ WsIdle /\ PathIdle /\ HttpIdle /\ ApiIdle /\ HdrIdle /\ ServerIdle /\ HtIdle

\* the request line or a header line was read: parse_headers calls
\* io_read_line_crlf(fd, h_buff, MAX_HTTP_HEADER)
NextHeaderLine ==
    /\ io_pc = "done" /\ io_ret > 0
    /\ io_calls' = io_calls + 1
    /\ buffer_len' = MAX_HTTP_HEADER
    /\ buffer' = <<>> /\ line_len' = 0 /\ ch_prev' = NUL
    /\ io_pc' = "call" /\ io_ret' = NotCalled
    /\ UNCHANGED <<fd, io_errno, eintr>>
    /\ UNCHANGED <<codecVars, wsVars, pathVars, httpVars, apiVars, hdrVars, serverVars, htVars>>

HeadNext ==
    \/ LineNext
    \/ NextHeaderLine

SpecHead == HeadInit /\ [][HeadNext]_vars

\* the place of the first CR LF pair of s at or after from, 0 without one
FirstCrlfFrom(s, from) ==
    LET at == {k \in from..(Len(s) - 1) : s[k] = CR /\ s[k + 1] = LF}
    IN  IF at = {} THEN 0 ELSE CHOOSE k \in at : \A j \in at : k <= j

\* the number of bytes of s up to the end of the empty line that ends the
\* header block whose lines begin at start; 0 when s has no such line
RECURSIVE HeadEndFrom(_, _)
HeadEndFrom(s, start) ==
    LET e == FirstCrlfFrom(s, start)
    IN  IF e = 0 THEN 0
        ELSE IF e = start THEN start + 1
        ELSE HeadEndFrom(s, e + 2)
HeadEnd(s) ==
    LET e == FirstCrlfFrom(s, 1)
    IN  IF e = 0 THEN 0 ELSE HeadEndFrom(s, e + 2)

\* parse_headers has read the empty line
HeadRead == io_pc = "done" /\ io_calls >= 2 /\ io_ret = 0

\* C36: io_read_line_crlf takes no byte beyond the LF that ends the line it
\* returns, so when the request line and the header block have been read
\* the position of the stream is the first byte after the empty line:
\* every byte sent after the headers is still there for the body read and
\* the frame reader.
C36_NoReadAhead ==
    /\ (io_pc = "done" /\ io_ret >= 0) =>
           /\ fd.pos >= io_ret + 2
           /\ fd.stream[fd.pos] = LF /\ fd.stream[fd.pos - 1] = CR
           /\ buffer = SubSeq(fd.stream, fd.pos - io_ret - 1, fd.pos - 2) \o <<NUL>>
    /\ HeadRead =>
           /\ HeadEnd(fd.stream) # 0
           /\ fd.pos = HeadEnd(fd.stream)

C36_Witness ==
    /\ HeadRead /\ io_calls = 3
    /\ fd.stream = <<"a", CR, LF, LF, CR, LF, CR, LF, CR, LF>>
    /\ fd.pos = 8


\* the opcodes _ws_read has a case for
KnownOpcodes == {OC_CONT, OC_TEXT, OC_BIN, OC_CLOSE, OC_PING, OC_PONG}

\* The frame at the head of f_in can be read and is a CONT frame with no
\* fragmented message in progress (ws.df is the frame read before it, at
\* first the PING of _ws_create: its fin bit is set), or has an opcode
\* _ws_read does not know.
StrayFrame ==
    /\ pc = "wait" /\ f_in # <<>>
    /\ LET r == read_dataframe(f_in, ws.is_masked_client)
       IN  /\ r.df # NoFrame
           /\ \/ r.df.opcode = OC_CONT /\ ws.df.fin
              \/ r.df.opcode \notin KnownOpcodes

\* C37: a CONT frame when no fragmented message is in progress (the first
\* frame of the session, or directly after a frame with fin = 1) and a frame
\* with an opcode other than CONT, TEXT, BIN, CLOSE, PING, PONG are protocol
\* errors: ws_wait returns WS_ERROR for them, never a message or WS_CLOSE.
C37_StrayFrameIsError ==
    [][(StrayFrame /\ f_in' # f_in) =>
          /\ Len(ret_log') = Len(ret_log) + 1
          /\ ret_log'[Len(ret_log')].type = WS_ERROR
          /\ pc' = "done"]_vars

\* a message, then a CONT frame: the second return of ws_wait is WS_ERROR
C37_Witness ==
    /\ pc = "done" /\ Len(ret_log) = 2
    /\ ret_log[1].type = WS_MSG_TXT /\ ret_log[2].type = WS_ERROR
    /\ c_last.opcode = OC_CONT /\ c_last.mask = 1 /\ c_last.rsv = 0
    /\ ws.is_masked_client


\* C38: on every path through a POST or PUT (the body read in full, the
\* stream ended before Content-Length bytes, a read failed) the buffer of
\* the request body is released exactly once: free is called once for the
\* block malloc returned, and not at all when there was no block.
C38_BodyFreedOnce ==
    (Dispatched /\ http_method(ReqTokens[1]) \in {M_POST, M_PUT}) =>
        /\ req_body.malloc = (IF ReqContentLength > 0 THEN 1 ELSE 0)
        /\ req_body.free = req_body.malloc


\* URIs under the root, and of entries elsewhere
ProbeUris == {<<"/", "i">>, <<"/", "d", "/", "f">>, <<"/", "e", "/", "p">>,
              <<"e", "/", "p">>, <<"/", ".", ".", "/", "e", "/", "p">>}

\* C39: a call of http_init that fails leaves the stored directory and its
\* length as they were, so after any calls they are those of the last call
\* that succeeded, the directory is not "/" and the length is its length,
\* and realpath_uri accepts after a failed call what it accepted before it.
C39_FailedInitKeeps ==
    [][\A d \in RawDirs :
          (http_init_ret = 0 /\ HttpInitAgain(d) /\ http_init_ret' = -1) =>
              /\ static_files_dir' = static_files_dir
              /\ static_files_dir_len' = static_files_dir_len
              /\ static_files_dir' # <<"/">>
              /\ static_files_dir_len' = Len(static_files_dir')
              /\ \A uri \in ProbeUris :
                     realpath_uri(uri, static_files_dir', static_files_dir_len')
                       = realpath_uri(uri, static_files_dir, static_files_dir_len)]_vars


\* the loop of dispatch_websocket has ended and ws_free has been called
DriverDone == pc = "done"

====
